---- MODULE Spec2Model ----
(***************************************************************************)
(* A model of pstr: the intern pool (src/src/pool.rs), the interned handle *)
(* IStr (src/src/istr.rs), the mutable-on-write string MowStr              *)
(* (src/src/mow_str.rs) and the reference-counted pointer Prc              *)
(* (src/src/prc.rs), which the pool does not use.                          *)
(*                                                                         *)
(* Strings are sequences of byte values.  An Arc<str> allocation is a      *)
(* number of Allocs; strong[e] is its strong count (0: not allocated) and  *)
(* data[e] its immutable content.  The DashSet is the set `pool` of        *)
(* allocations, keyed by content.  Every thread owns one value slot        *)
(* val[t], an IStr/MowStr or nothing, and runs one call at a time; a call  *)
(* into the pool is split at every point where another thread may          *)
(* interleave (each DashSet operation is atomic under its shard lock).     *)
(***************************************************************************)
EXTENDS Integers, Sequences, FiniteSets, TLC

\* ------------------------------------------------------------------ bounds
NThreads == 2
MaxLen == 2
NShards == 2
NCells == 2
MaxCount == 3
UsizeBits == 4

Threads == 1..NThreads
\* in the MowStr specification thread 1 owns a MowStr and thread 2 is another
\* user of the pool
MowThreads == {1}
EnvThreads == {2}
Chars == {97, 98}
\* every string of at most MaxLen bytes
Strs == UNION {[1..n -> Chars] : n \in 0..MaxLen}
\* the contents the callers intern and build values from: "a" and "b"
Names == {<<97>>, <<98>>}
\* the strings push_str appends: "b"
Suffixes == {<<98>>}
\* the buffers the single-threaded callers build values from: "", "a" and "b"
Bufs == {<<>>} \cup Names
\* The addresses of Arc<str> allocations.  The program only compares addresses for
\* equality, so any free address serves a new allocation: the k-th allocation of
\* content c that is live at one time is at <<c, k>>.  At most one entry of the pool
\* and one private Arc per thread hold the same content at one time.
Slots == 1..(NThreads + 1)
Allocs == Strs \X Slots
NoAlloc == <<<<>>, 0>>
NoThread == 0
\* the Prc cells: the addresses Box::leak can return
Cells == 1..NCells
\* usize scaled down to UsizeBits bits: AtomicUsize counts modulo UsizeMod, and
\* MAX_REFCOUNT is isize::MAX
UsizeMod == 2 ^ UsizeBits
MAX_REFCOUNT == 2 ^ (UsizeBits - 1) - 1
\* prc_pc of every thread once the process has aborted
AbortedPc == NCells + 1

VARIABLES
    strong,   \* Arc strong count of every live allocation
    data,     \* content of every live allocation
    pool,     \* Pool::pool, the DashSet of canonical allocations
    gc_lock,  \* Pool::gc_lock: [readers: set of threads, writer: thread or 0]
    pc,       \* where each thread is in its current call
    op,       \* the public operation each thread is running or has just run
    a,        \* the argument of that operation
    old,      \* the tag and content of the thread's value when the operation was called
    arc,      \* insert_arc / when_failed: the caller's own Arc
    r,        \* when_failed: the result r
    shard,    \* collect_garbage: the next shard retain sweeps
    val,      \* each thread's value: nothing, I(IStr) or M(Option<String>)
    ret,      \* what the thread's operation returned
    prc_strong,  \* PrcInner::strong of every Prc cell
    prc_box,     \* every Prc cell's two boxes: "none", "leaked" (allocated) or "freed"
    prc_own,     \* the number of Prc handles to every cell that each thread owns
    prc_pc,      \* the cell c a thread is about to free in Prc::drop, or 0; -c while
                 \* its clone of c is about to abort; AbortedPc after the abort
    prc_view,    \* the accesses to cell data that happen before each thread's next step:
                 \* <<u, c>> stands for all accesses thread u has made to the data of c
    prc_acq,     \* the accesses each thread has read from `strong` and that its next
                 \* acquire fence makes happen before it
    prc_msg      \* the accesses released into the current value of every cell's `strong`

\* the happens-before state of the Prc cells
prcOrd == <<prc_view, prc_acq, prc_msg>>

\* the state of the Prc cells (src/src/prc.rs), which the pool does not use
prcVars == <<prc_strong, prc_box, prc_own, prc_pc, prcOrd>>

vars == <<strong, data, pool, gc_lock, pc, op, a, old, arc, r, shard, val, ret, prcVars>>

\* ------------------------------------------------------------------ values
NoVal == [tag |-> "none", cell |-> NoAlloc, some |-> FALSE, buf |-> <<>>, req |-> <<>>]
\* Inner::I(IStr(Intern(Arc e))); req is the content the handle was asked for
ValI(e, c) == [tag |-> "I", cell |-> e, some |-> FALSE, buf |-> <<>>, req |-> c]
\* Inner::M(Some(s))
ValM(s) == [tag |-> "M", cell |-> NoAlloc, some |-> TRUE, buf |-> s, req |-> <<>>]
\* Inner::M(None): the buffer has been taken
ValTaken == [tag |-> "M", cell |-> NoAlloc, some |-> FALSE, buf |-> <<>>, req |-> <<>>]

\* what `old` remembers of a value: its tag and its content
NoOld == [tag |-> "none", buf |-> <<>>]
Before(tag, s) == [tag |-> tag, buf |-> s]

\* what an operation returned: nothing, Option::None, or a String (bare or in Some)
NoRet == [tag |-> "none", buf |-> <<>>]
RetNone == [tag |-> "None", buf |-> <<>>]
RetSome(s) == [tag |-> "Some", buf |-> s]
RetBool(b) == [tag |-> IF b THEN "true" ELSE "false", buf |-> <<>>]
RetHash(h) == [tag |-> "hash", buf |-> <<h>>]

\* ------------------------------------------------------------------ hashing
\* One Hasher::write_u8 of a small multiplicative hasher.
HashByte(h, b) == (h * 31 + b) % 256

RECURSIVE HashBytes(_, _)
HashBytes(h, s) == IF s = <<>> THEN h ELSE HashBytes(HashByte(h, Head(s)), Tail(s))

\* <str as Hash>::hash: the bytes, then the terminator 0xff
StrHash(s) == HashByte(HashBytes(0, s), 255)

\* The DashSet shard that holds content c
ShardOf(c) == (StrHash(c) % NShards) + 1

\* ------------------------------------------------------------------ Arc
\* the allocations that exist: DOMAIN strong = DOMAIN data
Live == DOMAIN strong

\* Arc::strong_count
strong_count(e) == IF e \in Live THEN strong[e] ELSE 0

\* Arc::from / to_arc: the address of a fresh allocation
NewAlloc(c) ==
    <<c, CHOOSE k \in Slots : <<c, k>> \notin Live /\ \A j \in 1..(k - 1) : <<c, j>> \in Live>>

\* Arc::clone on every allocation of the set es
ArcCloneAll(s, es) == [e \in DOMAIN s |-> IF e \in es THEN s[e] + 1 ELSE s[e]]

\* Arc::drop on every allocation of the set es: the count goes down by one and an
\* allocation whose count reaches 0 is freed
ArcDropAll(s, es) ==
    [e \in {x \in DOMAIN s : x \notin es \/ s[x] # 1} |-> IF e \in es THEN s[e] - 1 ELSE s[e]]

\* the content of the allocations still allocated under the counts s
DataAfter(s) == [e \in DOMAIN s |-> data[e]]

\* ------------------------------------------------------------------ DashSet
\* a lookup that compares the lengths of the contents only
Lookup_by_len(c) == {e \in pool : Len(data[e]) = Len(c)}

\* DashSet::get(c): the entries whose content is c
Lookup(c) == {e \in pool : data[e] = c}

\* the entry get(c) returns
Entry(c) == CHOOSE e \in Lookup(c) : TRUE

\* a retain predicate that is off by one upwards: an entry with one holder is swept
Retained_gt2(e) == strong_count(e) > 2

\* a retain predicate that is off by one downwards: nothing is swept
Retained_gt0(e) == strong_count(e) > 0

\* the retain predicate of collect_garbage
Retained(e) == strong_count(e) > 1

\* ------------------------------------------------------------------ Init
Init ==
    /\ strong = <<>>
    /\ data = <<>>
    /\ pool = {}
    /\ gc_lock = [readers |-> {}, writer |-> NoThread]
    /\ pc = [t \in Threads |-> "idle"]
    /\ op = [t \in Threads |-> "none"]
    /\ a = [t \in Threads |-> <<>>]
    /\ old = [t \in Threads |-> NoOld]
    /\ arc = [t \in Threads |-> NoAlloc]
    /\ r = [t \in Threads |-> NoAlloc]
    /\ shard = [t \in Threads |-> 0]
    /\ val = [t \in Threads |-> NoVal]
    /\ ret = [t \in Threads |-> NoRet]
    /\ prc_strong = [c \in Cells |-> 0]
    /\ prc_box = [c \in Cells |-> "none"]
    /\ prc_own = [t \in Threads |-> [c \in Cells |-> 0]]
    /\ prc_pc = [t \in Threads |-> 0]
    /\ prc_view = [t \in Threads |-> {}]
    /\ prc_acq = [t \in Threads |-> {}]
    /\ prc_msg = [c \in Cells |-> {}]

\* ------------------------------------------------------------------ Pool::intern
\* IStr::new(c) / MowStr::new(c): the call enters Pool::intern
IStr_new(t, c) ==
    /\ pc[t] = "idle"
    /\ val[t].tag = "none"
    /\ pc' = [pc EXCEPT ![t] = "intern"]
    /\ op' = [op EXCEPT ![t] = "IStr_new"]
    /\ a' = [a EXCEPT ![t] = c]
    /\ UNCHANGED <<strong, data, pool, gc_lock, old, arc, r, shard, val, ret, prcVars>>

\* an intern whose hit hands out the entry without cloning it
intern_uncloned(t) ==
    /\ pc[t] = "intern"
    /\ IF Lookup(a[t]) # {}
       THEN /\ val' = [val EXCEPT ![t] = ValI(Entry(a[t]), a[t])]
            /\ pc' = [pc EXCEPT ![t] = "done"]
       ELSE /\ pc' = [pc EXCEPT ![t] = "to_arc"]
            /\ UNCHANGED val
    /\ UNCHANGED <<strong, data, pool, gc_lock, op, a, old, arc, r, shard, ret, prcVars>>

\* Pool::intern: self.pool.get(a).map(|v| v.key().clone()); a hit returns the clone
intern(t) ==
    /\ pc[t] = "intern"
    /\ IF Lookup(a[t]) # {}
       THEN /\ strong' = ArcCloneAll(strong, {Entry(a[t])})
            /\ val' = [val EXCEPT ![t] = ValI(Entry(a[t]), a[t])]
            /\ pc' = [pc EXCEPT ![t] = "done"]
       ELSE /\ pc' = [pc EXCEPT ![t] = "to_arc"]
            /\ UNCHANGED <<strong, val>>
    /\ UNCHANGED <<data, pool, gc_lock, op, a, old, arc, r, shard, ret, prcVars>>

\* Pool::intern: let arc = to_arc(a)
to_arc(t) ==
    /\ pc[t] = "to_arc"
    /\ strong' = strong @@ (NewAlloc(a[t]) :> 1)
    /\ data' = data @@ (NewAlloc(a[t]) :> a[t])
    /\ arc' = [arc EXCEPT ![t] = NewAlloc(a[t])]
    /\ pc' = [pc EXCEPT ![t] = "insert_arc"]
    /\ UNCHANGED <<pool, gc_lock, op, a, old, r, shard, val, ret, prcVars>>

\* an insert_arc whose set replaces an equal entry by the new one (HashSet::replace)
insert_arc_replace(t) ==
    /\ pc[t] = "insert_arc"
    /\ pool' = (pool \ Lookup(data[arc[t]])) \cup {arc[t]}
    /\ strong' = ArcDropAll(ArcCloneAll(strong, {arc[t]}), Lookup(data[arc[t]]))
    /\ data' = DataAfter(strong')
    /\ val' = [val EXCEPT ![t] = ValI(arc[t], a[t])]
    /\ arc' = [arc EXCEPT ![t] = NoAlloc]
    /\ pc' = [pc EXCEPT ![t] = "done"]
    /\ UNCHANGED <<gc_lock, op, a, old, r, shard, ret, prcVars>>

\* an insert_arc that inserts under gc_lock.read(): it waits while a collector holds
\* the lock
insert_arc_locked(t) ==
    /\ pc[t] = "insert_arc"
    /\ gc_lock.writer = NoThread
    /\ IF Lookup(data[arc[t]]) = {}
       THEN /\ pool' = pool \cup {arc[t]}
            /\ strong' = ArcCloneAll(strong, {arc[t]})
            /\ val' = [val EXCEPT ![t] = ValI(arc[t], a[t])]
            /\ arc' = [arc EXCEPT ![t] = NoAlloc]
            /\ pc' = [pc EXCEPT ![t] = "done"]
       ELSE /\ pc' = [pc EXCEPT ![t] = "when_failed"]
            /\ UNCHANGED <<pool, strong, val, arc>>
    /\ UNCHANGED <<data, gc_lock, op, a, old, r, shard, ret, prcVars>>

\* an insert_arc that moves its Arc into the set without cloning it first: the set
\* holds the only counted reference
insert_arc_moved(t) ==
    /\ pc[t] = "insert_arc"
    /\ IF Lookup(data[arc[t]]) = {}
       THEN /\ pool' = pool \cup {arc[t]}
            /\ val' = [val EXCEPT ![t] = ValI(arc[t], a[t])]
            /\ arc' = [arc EXCEPT ![t] = NoAlloc]
            /\ pc' = [pc EXCEPT ![t] = "done"]
       ELSE /\ pc' = [pc EXCEPT ![t] = "when_failed"]
            /\ UNCHANGED <<pool, val, arc>>
    /\ UNCHANGED <<strong, data, gc_lock, op, a, old, r, shard, ret, prcVars>>

\* an insert_arc into a set that compares its keys by address: the Arc is always new
insert_arc_by_ptr(t) ==
    /\ pc[t] = "insert_arc"
    /\ pool' = pool \cup {arc[t]}
    /\ strong' = ArcCloneAll(strong, {arc[t]})
    /\ val' = [val EXCEPT ![t] = ValI(arc[t], a[t])]
    /\ arc' = [arc EXCEPT ![t] = NoAlloc]
    /\ pc' = [pc EXCEPT ![t] = "done"]
    /\ UNCHANGED <<data, gc_lock, op, a, old, r, shard, ret, prcVars>>

\* Pool::insert_arc: self.pool.insert(Clone::clone(&arc)); the clone is kept by the
\* set when the content is new and dropped by it otherwise
insert_arc(t) ==
    /\ pc[t] = "insert_arc"
    /\ IF Lookup(data[arc[t]]) = {}
       THEN /\ pool' = pool \cup {arc[t]}
            /\ strong' = ArcCloneAll(strong, {arc[t]})
            /\ val' = [val EXCEPT ![t] = ValI(arc[t], a[t])]
            /\ arc' = [arc EXCEPT ![t] = NoAlloc]
            /\ pc' = [pc EXCEPT ![t] = "done"]
       ELSE /\ pc' = [pc EXCEPT ![t] = "when_failed"]
            /\ UNCHANGED <<pool, strong, val, arc>>
    /\ UNCHANGED <<data, gc_lock, op, a, old, r, shard, ret, prcVars>>

\* Pool::when_failed: let lock = self.gc_lock.read()
when_failed(t) ==
    /\ pc[t] = "when_failed"
    /\ gc_lock.writer = NoThread
    /\ gc_lock' = [gc_lock EXCEPT !.readers = @ \cup {t}]
    /\ pc' = [pc EXCEPT ![t] = "when_failed_get"]
    /\ UNCHANGED <<strong, data, pool, op, a, old, arc, r, shard, val, ret, prcVars>>

\* Pool::when_failed: the second self.pool.get(..).map(|v| v.key().clone())
when_failed_get(t) ==
    /\ pc[t] = "when_failed_get"
    /\ IF Lookup(data[arc[t]]) # {}
       THEN /\ strong' = ArcCloneAll(strong, {Entry(data[arc[t]])})
            /\ r' = [r EXCEPT ![t] = Entry(data[arc[t]])]
            /\ pc' = [pc EXCEPT ![t] = "when_failed_unlock"]
       ELSE /\ pc' = [pc EXCEPT ![t] = "when_failed_insert"]
            /\ UNCHANGED <<strong, r>>
    /\ UNCHANGED <<data, pool, gc_lock, op, a, old, arc, shard, val, ret, prcVars>>

\* Pool::when_failed: let s = self.pool.insert(Clone::clone(&arc)); assert!(s)
when_failed_insert(t) ==
    /\ pc[t] = "when_failed_insert"
    /\ IF Lookup(data[arc[t]]) = {}
       THEN /\ pool' = pool \cup {arc[t]}
            /\ strong' = ArcCloneAll(strong, {arc[t]})
            /\ r' = [r EXCEPT ![t] = arc[t]]
            /\ pc' = [pc EXCEPT ![t] = "when_failed_unlock"]
       ELSE /\ pc' = [pc EXCEPT ![t] = "assert_failed"]
            /\ UNCHANGED <<pool, strong, r>>
    /\ UNCHANGED <<data, gc_lock, op, a, old, arc, shard, val, ret, prcVars>>

\* a when_failed that returns the caller's own Arc and drops r
when_failed_unlock_own(t) ==
    /\ pc[t] = "when_failed_unlock"
    /\ gc_lock' = [gc_lock EXCEPT !.readers = @ \ {t}]
    /\ strong' = ArcDropAll(strong, {r[t]} \ {arc[t]})
    /\ data' = DataAfter(strong')
    /\ val' = [val EXCEPT ![t] = ValI(arc[t], a[t])]
    /\ arc' = [arc EXCEPT ![t] = NoAlloc]
    /\ r' = [r EXCEPT ![t] = NoAlloc]
    /\ pc' = [pc EXCEPT ![t] = "done"]
    /\ UNCHANGED <<pool, op, a, old, shard, ret, prcVars>>

\* Pool::when_failed: drop(lock); r -- the caller's own Arc is dropped unless it is r
when_failed_unlock(t) ==
    /\ pc[t] = "when_failed_unlock"
    /\ gc_lock' = [gc_lock EXCEPT !.readers = @ \ {t}]
    /\ strong' = ArcDropAll(strong, {arc[t]} \ {r[t]})
    /\ data' = DataAfter(strong')
    /\ val' = [val EXCEPT ![t] = ValI(r[t], a[t])]
    /\ arc' = [arc EXCEPT ![t] = NoAlloc]
    /\ r' = [r EXCEPT ![t] = NoAlloc]
    /\ pc' = [pc EXCEPT ![t] = "done"]
    /\ UNCHANGED <<pool, op, a, old, shard, ret, prcVars>>

\* assert!(s) fails: the panic unwinds when_failed, dropping the read guard and the
\* caller's Arc, and ends the thread
assert_failed(t) ==
    /\ pc[t] = "assert_failed"
    /\ gc_lock' = [gc_lock EXCEPT !.readers = @ \ {t}]
    /\ strong' = ArcDropAll(strong, {arc[t]})
    /\ data' = DataAfter(strong')
    /\ arc' = [arc EXCEPT ![t] = NoAlloc]
    /\ pc' = [pc EXCEPT ![t] = "panicked"]
    /\ UNCHANGED <<pool, op, a, old, r, shard, val, ret, prcVars>>

\* the call returns to its caller
return(t) ==
    /\ pc[t] = "done"
    /\ pc' = [pc EXCEPT ![t] = "idle"]
    /\ op' = [op EXCEPT ![t] = "none"]
    /\ a' = [a EXCEPT ![t] = <<>>]
    /\ old' = [old EXCEPT ![t] = NoOld]
    /\ ret' = [ret EXCEPT ![t] = NoRet]
    /\ UNCHANGED <<strong, data, pool, gc_lock, arc, r, shard, val, prcVars>>

\* the panic of a call is caught by its caller (catch_unwind, or the join of the
\* thread that made the call): the caller goes on, with the value as the unwinding
\* call left it
catch_unwind(t) ==
    /\ pc[t] = "panicked"
    /\ pc' = [pc EXCEPT ![t] = "idle"]
    /\ op' = [op EXCEPT ![t] = "none"]
    /\ a' = [a EXCEPT ![t] = <<>>]
    /\ old' = [old EXCEPT ![t] = NoOld]
    /\ ret' = [ret EXCEPT ![t] = NoRet]
    /\ UNCHANGED <<strong, data, pool, gc_lock, arc, r, shard, val, prcVars>>

\* ------------------------------------------------------------------ drop
\* a drop that also takes the entry out of the pool when the last handle goes
drop_weak(t) ==
    /\ pc[t] = "idle"
    /\ val[t].tag # "none"
    /\ pool' = pool \ {e \in pool : val[t].tag = "I" /\ e = val[t].cell /\ strong[e] = 2}
    /\ strong' = ArcDropAll(ArcDropAll(strong, IF val[t].tag = "I" THEN {val[t].cell} ELSE {}),
                            pool \ pool')
    /\ data' = DataAfter(strong')
    /\ val' = [val EXCEPT ![t] = NoVal]
    /\ UNCHANGED <<gc_lock, pc, op, a, old, arc, r, shard, ret, prcVars>>

\* drop of an IStr, or of a MowStr in either state
drop(t) ==
    /\ pc[t] = "idle"
    /\ val[t].tag # "none"
    /\ strong' = ArcDropAll(strong, IF val[t].tag = "I" THEN {val[t].cell} ELSE {})
    /\ data' = DataAfter(strong')
    /\ val' = [val EXCEPT ![t] = NoVal]
    /\ UNCHANGED <<pool, gc_lock, pc, op, a, old, arc, r, shard, ret, prcVars>>

\* ------------------------------------------------------------------ collect_garbage
\* Pool::collect_garbage is called
collect_garbage(t) ==
    /\ pc[t] = "idle"
    /\ pc' = [pc EXCEPT ![t] = "gc_write"]
    /\ op' = [op EXCEPT ![t] = "collect_garbage"]
    /\ UNCHANGED <<strong, data, pool, gc_lock, a, old, arc, r, shard, val, ret, prcVars>>

\* a write() that does not wait for the readers to leave
gc_write_early(t) ==
    /\ pc[t] = "gc_write"
    /\ gc_lock.writer = NoThread
    /\ gc_lock' = [gc_lock EXCEPT !.writer = t]
    /\ shard' = [shard EXCEPT ![t] = 1]
    /\ pc' = [pc EXCEPT ![t] = "retain"]
    /\ UNCHANGED <<strong, data, pool, op, a, old, arc, r, val, ret, prcVars>>

\* Pool::collect_garbage: let lock = self.gc_lock.write()
gc_write(t) ==
    /\ pc[t] = "gc_write"
    /\ gc_lock.writer = NoThread
    /\ gc_lock.readers = {}
    /\ gc_lock' = [gc_lock EXCEPT !.writer = t]
    /\ shard' = [shard EXCEPT ![t] = 1]
    /\ pc' = [pc EXCEPT ![t] = "retain"]
    /\ UNCHANGED <<strong, data, pool, op, a, old, arc, r, val, ret, prcVars>>

\* the entries retain removes from shard i
Swept(i) == {e \in pool : ShardOf(data[e]) = i /\ ~Retained(e)}

\* DashSet::retain: one shard is write-locked and swept; a removed entry is dropped
retain(t) ==
    /\ pc[t] = "retain"
    /\ pool' = pool \ Swept(shard[t])
    /\ strong' = ArcDropAll(strong, Swept(shard[t]))
    /\ data' = DataAfter(strong')
    /\ IF shard[t] < NShards
       THEN /\ shard' = [shard EXCEPT ![t] = @ + 1]
            /\ UNCHANGED pc
       ELSE /\ shard' = [shard EXCEPT ![t] = 0]
            /\ pc' = [pc EXCEPT ![t] = "gc_unlock"]
    /\ UNCHANGED <<gc_lock, op, a, old, arc, r, val, ret, prcVars>>

\* Pool::collect_garbage: drop(lock)
gc_unlock(t) ==
    /\ pc[t] = "gc_unlock"
    /\ gc_lock' = [gc_lock EXCEPT !.writer = NoThread]
    /\ pc' = [pc EXCEPT ![t] = "done"]
    /\ UNCHANGED <<strong, data, pool, op, a, old, arc, r, shard, val, ret, prcVars>>

\* ------------------------------------------------------------------ MowStr
\* <MowStr as AsRef<str>>::as_ref: the content of a value in either state
as_ref(v) == IF v.tag = "I" THEN data[v.cell] ELSE v.buf

\* a value a caller can observe: it exists and its buffer is not taken
Usable(v) == v.tag = "I" \/ (v.tag = "M" /\ v.some)

\* an Intern equality that compares the lengths of the two fat pointers only
Intern_eq_len(e, f) == Len(data[e]) = Len(data[f])

\* <Intern as PartialEq>::eq: Arc::as_ptr(&self.0) == Arc::as_ptr(&other.0)
Intern_eq(e, f) == e = f

\* the equality #[derive(PartialEq)] would give: values of different variants differ
MowStr_eq_derived(v, w) ==
    IF v.tag = "I"
    THEN w.tag = "I" /\ Intern_eq(v.cell, w.cell)
    ELSE w.tag = "M" /\ v.some = w.some /\ v.buf = w.buf

\* <MowStrInner as PartialEq>::eq
MowStr_eq(v, w) ==
    IF v.tag = "I"
    THEN IF w.tag = "I" THEN Intern_eq(v.cell, w.cell) ELSE w.buf = data[v.cell]
    ELSE IF w.tag = "I" THEN v.buf = data[w.cell] ELSE v.some = w.some /\ v.buf = w.buf

\* <MowStr as Hash>::hash: self.deref().hash(state)
MowStr_hash(v) == StrHash(as_ref(v))

\* <str as Ord>::cmp: the bytes are compared lexicographically
RECURSIVE str_cmp(_, _)
str_cmp(x, y) ==
    IF x = <<>> THEN (IF y = <<>> THEN "Equal" ELSE "Less")
    ELSE IF y = <<>> THEN "Greater"
    ELSE IF Head(x) < Head(y) THEN "Less"
    ELSE IF Head(x) > Head(y) THEN "Greater"
    ELSE str_cmp(Tail(x), Tail(y))

\* <Option<String> as Ord>::cmp: None is below every Some
Option_cmp(v, w) ==
    IF v.some /\ w.some THEN str_cmp(v.buf, w.buf)
    ELSE IF v.some = w.some THEN "Equal"
    ELSE IF w.some THEN "Less" ELSE "Greater"

\* <MowStrInner as Ord>::cmp, from #[derive(Ord, PartialOrd)]: the variants are
\* ordered as declared, I before M, and two values of one variant by their field
\* (IStr, Intern and Arc<str> compare the contents)
MowStr_cmp(v, w) ==
    IF v.tag = "I"
    THEN IF w.tag = "I" THEN str_cmp(data[v.cell], data[w.cell]) ELSE "Less"
    ELSE IF w.tag = "I" THEN "Greater" ELSE Option_cmp(v, w)

\* a new_mut that interns its argument, as MowStr::new does
new_mut_interned(t, c) ==
    /\ pc[t] = "idle"
    /\ val[t].tag = "none"
    /\ pc' = [pc EXCEPT ![t] = "intern"]
    /\ op' = [op EXCEPT ![t] = "new_mut"]
    /\ a' = [a EXCEPT ![t] = c]
    /\ UNCHANGED <<strong, data, pool, gc_lock, old, arc, r, shard, val, ret, prcVars>>

\* MowStr::new_mut(c): Self(Inner::M(Some(c.into())))
new_mut(t, c) ==
    /\ pc[t] = "idle"
    /\ val[t].tag = "none"
    /\ val' = [val EXCEPT ![t] = ValM(c)]
    /\ pc' = [pc EXCEPT ![t] = "done"]
    /\ op' = [op EXCEPT ![t] = "new_mut"]
    /\ a' = [a EXCEPT ![t] = c]
    /\ UNCHANGED <<strong, data, pool, gc_lock, old, arc, r, shard, ret, prcVars>>

\* MowStr::mut_empty(): Self::new_mut(String::new())
mut_empty(t) == new_mut(t, <<>>)

\* a mutdown whose to_mut starts from String::new() instead of the content
mutdown_empty(v) == IF v.tag = "I" THEN <<>> ELSE v.buf

\* the buffer MowStr::mutdown hands out: to_mut clones the content of a shared
\* value (and drops its IStr), an exclusive one keeps its buffer
mutdown(v) == IF v.tag = "I" THEN data[v.cell] ELSE v.buf

\* a push_str that appends to the shared cell in place instead of going through
\* mutdown
push_str_in_place(t, x) ==
    /\ pc[t] = "idle"
    /\ Usable(val[t])
    /\ Len(as_ref(val[t])) + Len(x) <= MaxLen
    /\ IF val[t].tag = "I"
       THEN /\ data' = [data EXCEPT ![val[t].cell] = @ \o x]
            /\ UNCHANGED val
       ELSE /\ val' = [val EXCEPT ![t] = ValM(val[t].buf \o x)]
            /\ UNCHANGED data
    /\ pc' = [pc EXCEPT ![t] = "done"]
    /\ op' = [op EXCEPT ![t] = "push_str"]
    /\ a' = [a EXCEPT ![t] = x]
    /\ old' = [old EXCEPT ![t] = Before(val[t].tag, as_ref(val[t]))]
    /\ UNCHANGED <<strong, pool, gc_lock, arc, r, shard, ret, prcVars>>

\* MowStr::push_str(x): self.mutdown().push_str(x)
push_str(t, x) ==
    /\ pc[t] = "idle"
    /\ Usable(val[t])
    /\ Len(as_ref(val[t])) + Len(x) <= MaxLen
    /\ val' = [val EXCEPT ![t] = ValM(mutdown(val[t]) \o x)]
    /\ strong' = ArcDropAll(strong, IF val[t].tag = "I" THEN {val[t].cell} ELSE {})
    /\ data' = DataAfter(strong')
    /\ pc' = [pc EXCEPT ![t] = "done"]
    /\ op' = [op EXCEPT ![t] = "push_str"]
    /\ a' = [a EXCEPT ![t] = x]
    /\ old' = [old EXCEPT ![t] = Before(val[t].tag, as_ref(val[t]))]
    /\ UNCHANGED <<pool, gc_lock, arc, r, shard, ret, prcVars>>

\* String::truncate(n): the first n bytes are kept; nothing happens if n is above
\* the length
String_truncate(s, n) == IF n <= Len(s) THEN SubSeq(s, 1, n) ELSE s

\* MowStr::clear: self.mutdown().clear()
clear(t) ==
    /\ pc[t] = "idle"
    /\ Usable(val[t])
    /\ val' = [val EXCEPT ![t] = ValM(<<>>)]
    /\ strong' = ArcDropAll(strong, IF val[t].tag = "I" THEN {val[t].cell} ELSE {})
    /\ data' = DataAfter(strong')
    /\ pc' = [pc EXCEPT ![t] = "done"]
    /\ op' = [op EXCEPT ![t] = "clear"]
    /\ a' = [a EXCEPT ![t] = <<>>]
    /\ old' = [old EXCEPT ![t] = Before(val[t].tag, as_ref(val[t]))]
    /\ UNCHANGED <<pool, gc_lock, arc, r, shard, ret, prcVars>>

\* MowStr::truncate(n): self.mutdown().truncate(n); the argument is kept as <<n>>
truncate(t, n) ==
    /\ pc[t] = "idle"
    /\ Usable(val[t])
    /\ val' = [val EXCEPT ![t] = ValM(String_truncate(mutdown(val[t]), n))]
    /\ strong' = ArcDropAll(strong, IF val[t].tag = "I" THEN {val[t].cell} ELSE {})
    /\ data' = DataAfter(strong')
    /\ pc' = [pc EXCEPT ![t] = "done"]
    /\ op' = [op EXCEPT ![t] = "truncate"]
    /\ a' = [a EXCEPT ![t] = <<n>>]
    /\ old' = [old EXCEPT ![t] = Before(val[t].tag, as_ref(val[t]))]
    /\ UNCHANGED <<pool, gc_lock, arc, r, shard, ret, prcVars>>

\* a MowStr::intern that ends with Self::from_string_mut(s): the value stays mutable
MowStr_intern_mut(t) ==
    /\ pc[t] = "idle"
    /\ Usable(val[t])
    /\ op' = [op EXCEPT ![t] = "MowStr_intern"]
    /\ old' = [old EXCEPT ![t] = Before(val[t].tag, as_ref(val[t]))]
    /\ pc' = [pc EXCEPT ![t] = "done"]
    /\ a' = [a EXCEPT ![t] = as_ref(val[t])]
    /\ UNCHANGED <<strong, data, pool, gc_lock, arc, r, shard, val, ret, prcVars>>

\* a MowStr::intern without the early return: a shared value also gives up its
\* handle and interns its content again
MowStr_intern_again(t) ==
    /\ pc[t] = "idle"
    /\ Usable(val[t])
    /\ op' = [op EXCEPT ![t] = "MowStr_intern"]
    /\ old' = [old EXCEPT ![t] = Before(val[t].tag, as_ref(val[t]))]
    /\ pc' = [pc EXCEPT ![t] = "intern"]
    /\ a' = [a EXCEPT ![t] = as_ref(val[t])]
    /\ val' = [val EXCEPT ![t] = ValTaken]
    /\ strong' = ArcDropAll(strong, IF val[t].tag = "I" THEN {val[t].cell} ELSE {})
    /\ data' = DataAfter(strong')
    /\ UNCHANGED <<pool, gc_lock, arc, r, shard, ret, prcVars>>

\* MowStr::intern: nothing when shared; an exclusive value takes its buffer and
\* goes through Self::from_string(s), that is STR_POOL.intern(s, Arc::from)
MowStr_intern(t) ==
    /\ pc[t] = "idle"
    /\ Usable(val[t])
    /\ op' = [op EXCEPT ![t] = "MowStr_intern"]
    /\ old' = [old EXCEPT ![t] = Before(val[t].tag, as_ref(val[t]))]
    /\ IF val[t].tag = "I"
       THEN /\ pc' = [pc EXCEPT ![t] = "done"]
            /\ a' = [a EXCEPT ![t] = data[val[t].cell]]
            /\ UNCHANGED val
       ELSE /\ pc' = [pc EXCEPT ![t] = "intern"]
            /\ a' = [a EXCEPT ![t] = val[t].buf]
            /\ val' = [val EXCEPT ![t] = ValTaken]
    /\ UNCHANGED <<strong, data, pool, gc_lock, arc, r, shard, ret, prcVars>>

\* a try_swap_mut that replaces the value without looking at r, as swap_mut does
try_swap_mut_always(t, s) ==
    /\ pc[t] = "idle"
    /\ Usable(val[t])
    /\ ret' = [ret EXCEPT ![t] = IF val[t].tag = "I" THEN RetNone ELSE RetSome(val[t].buf)]
    /\ val' = [val EXCEPT ![t] = ValM(s)]
    /\ strong' = ArcDropAll(strong, IF val[t].tag = "I" THEN {val[t].cell} ELSE {})
    /\ data' = DataAfter(strong')
    /\ pc' = [pc EXCEPT ![t] = "done"]
    /\ op' = [op EXCEPT ![t] = "try_swap_mut"]
    /\ a' = [a EXCEPT ![t] = s]
    /\ old' = [old EXCEPT ![t] = Before(val[t].tag, as_ref(val[t]))]
    /\ UNCHANGED <<pool, gc_lock, arc, r, shard, prcVars>>

\* MowStr::try_swap_mut(s): r is None for a shared value and Some(the taken buffer)
\* for an exclusive one; only if r.is_some() the value becomes from_string_mut(s)
try_swap_mut(t, s) ==
    /\ pc[t] = "idle"
    /\ Usable(val[t])
    /\ IF val[t].tag = "I"
       THEN /\ ret' = [ret EXCEPT ![t] = RetNone]
            /\ UNCHANGED val
       ELSE /\ ret' = [ret EXCEPT ![t] = RetSome(val[t].buf)]
            /\ val' = [val EXCEPT ![t] = ValM(s)]
    /\ pc' = [pc EXCEPT ![t] = "done"]
    /\ op' = [op EXCEPT ![t] = "try_swap_mut"]
    /\ a' = [a EXCEPT ![t] = s]
    /\ old' = [old EXCEPT ![t] = Before(val[t].tag, as_ref(val[t]))]
    /\ UNCHANGED <<strong, data, pool, gc_lock, arc, r, shard, prcVars>>

\* a swap_mut that replaces the value only if r.is_some(), as try_swap_mut does
swap_mut_strict(t, s) ==
    /\ pc[t] = "idle"
    /\ Usable(val[t])
    /\ IF val[t].tag = "I"
       THEN /\ ret' = [ret EXCEPT ![t] = RetNone]
            /\ UNCHANGED val
       ELSE /\ ret' = [ret EXCEPT ![t] = RetSome(val[t].buf)]
            /\ val' = [val EXCEPT ![t] = ValM(s)]
    /\ pc' = [pc EXCEPT ![t] = "done"]
    /\ op' = [op EXCEPT ![t] = "swap_mut"]
    /\ a' = [a EXCEPT ![t] = s]
    /\ old' = [old EXCEPT ![t] = Before(val[t].tag, as_ref(val[t]))]
    /\ UNCHANGED <<strong, data, pool, gc_lock, arc, r, shard, prcVars>>

\* MowStr::swap_mut(s): r is None for a shared value and Some(the taken buffer) for
\* an exclusive one; then *self = Self::from_string_mut(s) in either case, and the
\* assignment drops the IStr of a shared value
swap_mut(t, s) ==
    /\ pc[t] = "idle"
    /\ Usable(val[t])
    /\ ret' = [ret EXCEPT ![t] = IF val[t].tag = "I" THEN RetNone ELSE RetSome(val[t].buf)]
    /\ val' = [val EXCEPT ![t] = ValM(s)]
    /\ strong' = ArcDropAll(strong, IF val[t].tag = "I" THEN {val[t].cell} ELSE {})
    /\ data' = DataAfter(strong')
    /\ pc' = [pc EXCEPT ![t] = "done"]
    /\ op' = [op EXCEPT ![t] = "swap_mut"]
    /\ a' = [a EXCEPT ![t] = s]
    /\ old' = [old EXCEPT ![t] = Before(val[t].tag, as_ref(val[t]))]
    /\ UNCHANGED <<pool, gc_lock, arc, r, shard, prcVars>>

\* a to_mut whose new buffer is String::new(), as to_mut_by(|_| String::new())
to_mut_by_empty(t) ==
    /\ pc[t] = "idle"
    /\ Usable(val[t])
    /\ IF val[t].tag = "I"
       THEN /\ val' = [val EXCEPT ![t] = ValM(<<>>)]
            /\ strong' = ArcDropAll(strong, {val[t].cell})
            /\ data' = DataAfter(strong')
       ELSE UNCHANGED <<val, strong, data>>
    /\ pc' = [pc EXCEPT ![t] = "done"]
    /\ op' = [op EXCEPT ![t] = "to_mut"]
    /\ old' = [old EXCEPT ![t] = Before(val[t].tag, as_ref(val[t]))]
    /\ UNCHANGED <<pool, gc_lock, a, arc, r, shard, ret, prcVars>>

\* a to_mut that forgets the IStr of a shared value instead of dropping it
to_mut_leaked(t) ==
    /\ pc[t] = "idle"
    /\ val[t].tag # "none"
    /\ IF val[t].tag = "I"
       THEN val' = [val EXCEPT ![t] = ValM(data[val[t].cell])]
       ELSE UNCHANGED val
    /\ pc' = [pc EXCEPT ![t] = "done"]
    /\ op' = [op EXCEPT ![t] = "to_mut"]
    /\ old' = [old EXCEPT ![t] = Before(val[t].tag, as_ref(val[t]))]
    /\ UNCHANGED <<strong, data, pool, gc_lock, a, arc, r, shard, ret, prcVars>>

\* MowStr::to_mut: nothing when exclusive, whether the Option holds a buffer or
\* not (Inner::M(_) => return); a shared value becomes
\* from_string_mut(v.to_string()) and the assignment drops its IStr
to_mut(t) ==
    /\ pc[t] = "idle"
    /\ val[t].tag # "none"
    /\ IF val[t].tag = "I"
       THEN /\ val' = [val EXCEPT ![t] = ValM(data[val[t].cell])]
            /\ strong' = ArcDropAll(strong, {val[t].cell})
            /\ data' = DataAfter(strong')
       ELSE UNCHANGED <<val, strong, data>>
    /\ pc' = [pc EXCEPT ![t] = "done"]
    /\ op' = [op EXCEPT ![t] = "to_mut"]
    /\ old' = [old EXCEPT ![t] = Before(val[t].tag, as_ref(val[t]))]
    /\ UNCHANGED <<pool, gc_lock, a, arc, r, shard, ret, prcVars>>

\* MowStr::is_interned / is_mutable: matches!(&self.0, Inner::I(_) / Inner::M(_))
is_interned(v) == v.tag = "I"
is_mutable(v) == v.tag = "M"

\* MowStr::try_istr: Some(&IStr) of a shared value (seen through its content)
try_istr(v) == IF v.tag = "I" THEN RetSome(data[v.cell]) ELSE RetNone

\* MowStr::try_string: Some(v.as_ref().unwrap()) of an exclusive value
try_string(v) == IF v.tag = "I" THEN RetNone ELSE RetSome(v.buf)

\* the accessors that take &self
Accessors == {"as_str", "try_istr", "try_string", "is_interned", "is_mutable", "hash", "eq"}

\* what accessor f returns on value v (eq compares v with itself)
Access(f, v) ==
    CASE f = "as_str" -> RetSome(as_ref(v))
      [] f = "try_istr" -> try_istr(v)
      [] f = "try_string" -> try_string(v)
      [] f = "is_interned" -> RetBool(is_interned(v))
      [] f = "is_mutable" -> RetBool(is_mutable(v))
      [] f = "hash" -> RetHash(MowStr_hash(v))
      [] f = "eq" -> RetBool(MowStr_eq(v, v))

\* an accessor that goes through <MowStr as AsMut<str>>::as_mut, that is mutdown:
\* a shared value becomes exclusive
read_mut(t, f) ==
    /\ pc[t] = "idle"
    /\ Usable(val[t])
    /\ ret' = [ret EXCEPT ![t] = Access(f, val[t])]
    /\ val' = [val EXCEPT ![t] = ValM(mutdown(val[t]))]
    /\ strong' = ArcDropAll(strong, IF val[t].tag = "I" THEN {val[t].cell} ELSE {})
    /\ data' = DataAfter(strong')
    /\ pc' = [pc EXCEPT ![t] = "done"]
    /\ op' = [op EXCEPT ![t] = "read"]
    /\ old' = [old EXCEPT ![t] = Before(val[t].tag, as_ref(val[t]))]
    /\ UNCHANGED <<pool, gc_lock, a, arc, r, shard, prcVars>>

\* a call of the read accessor f, which borrows the value as &self
read(t, f) ==
    /\ pc[t] = "idle"
    /\ Usable(val[t])
    /\ ret' = [ret EXCEPT ![t] = Access(f, val[t])]
    /\ pc' = [pc EXCEPT ![t] = "done"]
    /\ op' = [op EXCEPT ![t] = "read"]
    /\ old' = [old EXCEPT ![t] = Before(val[t].tag, as_ref(val[t]))]
    /\ UNCHANGED <<strong, data, pool, gc_lock, a, arc, r, shard, val, prcVars>>

\* the String MowStr::into_string gives for value v: v.to_string() of a shared
\* value, v.unwrap() of an exclusive one
into_string_of(v) == IF v.tag = "I" THEN data[v.cell] ELSE v.buf

\* an into_string that takes the buffer out of the Option first and then unwraps
\* what is left, or its default
into_string_taken(t) ==
    /\ pc[t] = "idle"
    /\ Usable(val[t])
    /\ ret' = [ret EXCEPT ![t] = RetSome(IF val[t].tag = "I" THEN data[val[t].cell] ELSE <<>>)]
    /\ val' = [val EXCEPT ![t] = NoVal]
    /\ strong' = ArcDropAll(strong, IF val[t].tag = "I" THEN {val[t].cell} ELSE {})
    /\ data' = DataAfter(strong')
    /\ pc' = [pc EXCEPT ![t] = "done"]
    /\ op' = [op EXCEPT ![t] = "into_string"]
    /\ old' = [old EXCEPT ![t] = Before(val[t].tag, as_ref(val[t]))]
    /\ UNCHANGED <<pool, gc_lock, a, arc, r, shard, prcVars>>

\* MowStr::into_string(self): the value is consumed; a shared one drops its handle
into_string(t) ==
    /\ pc[t] = "idle"
    /\ Usable(val[t])
    /\ ret' = [ret EXCEPT ![t] = RetSome(into_string_of(val[t]))]
    /\ val' = [val EXCEPT ![t] = NoVal]
    /\ strong' = ArcDropAll(strong, IF val[t].tag = "I" THEN {val[t].cell} ELSE {})
    /\ data' = DataAfter(strong')
    /\ pc' = [pc EXCEPT ![t] = "done"]
    /\ op' = [op EXCEPT ![t] = "into_string"]
    /\ old' = [old EXCEPT ![t] = Before(val[t].tag, as_ref(val[t]))]
    /\ UNCHANGED <<pool, gc_lock, a, arc, r, shard, prcVars>>

\* a clone that keeps the state of the value it copies: an exclusive value gives
\* Self::from_string_mut(v.clone().unwrap())
MowStr_clone_mut(u, t) ==
    /\ pc[u] = "idle"
    /\ val[u].tag = "none"
    /\ t # u
    /\ Usable(val[t])
    /\ IF val[t].tag = "I"
       THEN /\ strong' = ArcCloneAll(strong, {val[t].cell})
            /\ val' = [val EXCEPT ![u] = ValI(val[t].cell, data[val[t].cell])]
       ELSE /\ val' = [val EXCEPT ![u] = ValM(val[t].buf)]
            /\ UNCHANGED strong
    /\ pc' = [pc EXCEPT ![u] = "done"]
    /\ a' = [a EXCEPT ![u] = as_ref(val[t])]
    /\ op' = [op EXCEPT ![u] = "clone"]
    /\ old' = [old EXCEPT ![u] = Before(val[t].tag, as_ref(val[t]))]
    /\ UNCHANGED <<data, pool, gc_lock, arc, r, shard, ret, prcVars>>

\* <MowStr as Clone>::clone, called by thread u through a &MowStr to the value of
\* thread t: I(v) => Self::from_istr(v.clone()), one Arc::clone;
\* M(v) => Self::from_string(v.clone().unwrap()), the buffer is copied and the copy
\* goes into STR_POOL.intern.  The clone is the value of thread u.
MowStr_clone(u, t) ==
    /\ pc[u] = "idle"
    /\ val[u].tag = "none"
    /\ t # u
    /\ Usable(val[t])
    /\ IF val[t].tag = "I"
       THEN /\ strong' = ArcCloneAll(strong, {val[t].cell})
            /\ val' = [val EXCEPT ![u] = ValI(val[t].cell, data[val[t].cell])]
            /\ pc' = [pc EXCEPT ![u] = "done"]
       ELSE /\ pc' = [pc EXCEPT ![u] = "intern"]
            /\ UNCHANGED <<strong, val>>
    /\ a' = [a EXCEPT ![u] = as_ref(val[t])]
    /\ op' = [op EXCEPT ![u] = "clone"]
    /\ old' = [old EXCEPT ![u] = Before(val[t].tag, as_ref(val[t]))]
    /\ UNCHANGED <<data, pool, gc_lock, arc, r, shard, ret, prcVars>>

\* ------------------------------------------------------------------ Prc
\* the state of the pool and of the callers' values, which Prc does not touch
poolVars == <<strong, data, pool, gc_lock, pc, op, a, old, arc, r, shard, val, ret>>

\* the accesses of the set es that are not to the data at address c
Forget(c, es) == {e \in es : e[2] # c}

\* Prc::from_box: Box::leak gives a free address; its PrcInner starts with
\* strong = AtomicUsize::new(1) and the caller owns the one handle.  The data at
\* the address is new: nobody has accessed it
from_box(t, c) ==
    /\ prc_pc[t] = 0
    /\ prc_box[c] # "leaked"
    /\ prc_box' = [prc_box EXCEPT ![c] = "leaked"]
    /\ prc_strong' = [prc_strong EXCEPT ![c] = 1]
    /\ prc_own' = [prc_own EXCEPT ![t][c] = @ + 1]
    /\ prc_view' = [u \in Threads |-> Forget(c, prc_view[u])]
    /\ prc_acq' = [u \in Threads |-> Forget(c, prc_acq[u])]
    /\ prc_msg' = [d \in Cells |-> IF d = c THEN {} ELSE Forget(c, prc_msg[d])]
    /\ UNCHANGED <<prc_pc, poolVars>>

\* <Prc as Deref>::deref: thread t accesses the data of cell c through a handle it
\* owns.  The access happens before t's next step; nothing makes it happen before
\* any other thread's yet
Prc_deref(t, c) ==
    /\ prc_pc[t] = 0
    /\ prc_own[t][c] >= 1
    /\ prc_view' = [u \in Threads |->
                       IF u = t THEN prc_view[u] \cup {<<t, c>>} ELSE prc_view[u] \ {<<t, c>>}]
    /\ prc_acq' = [u \in Threads |-> prc_acq[u] \ {<<t, c>>}]
    /\ prc_msg' = [d \in Cells |-> prc_msg[d] \ {<<t, c>>}]
    /\ UNCHANGED <<prc_strong, prc_box, prc_own, prc_pc, poolVars>>

\* a clone that copies the two pointers without counting
Prc_clone_uncounted(t, c) ==
    /\ prc_pc[t] = 0
    /\ prc_own[t][c] >= 1
    /\ prc_strong[c] < MaxCount
    /\ prc_own' = [prc_own EXCEPT ![t][c] = @ + 1]
    /\ UNCHANGED <<prc_strong, prc_box, prc_pc, prcOrd, poolVars>>

\* a clone without the check of old_size: the count is only incremented
Prc_clone_unchecked(t, c) ==
    /\ prc_pc[t] = 0
    /\ prc_own[t][c] >= 1
    /\ prc_strong' = [prc_strong EXCEPT ![c] = (@ + 1) % UsizeMod]
    /\ prc_own' = [prc_own EXCEPT ![t][c] = @ + 1]
    /\ UNCHANGED <<prc_box, prc_pc, prcOrd, poolVars>>

\* <Prc as Clone>::clone on a handle the thread owns: old_size =
\* strong.fetch_add(1, Relaxed); if old_size > MAX_REFCOUNT the thread goes on to
\* abort(), otherwise there is a second handle to the same cell.  The relaxed
\* read-modify-write releases nothing of its own and keeps what the value it
\* replaces had released
Prc_clone(t, c) ==
    /\ prc_pc[t] = 0
    /\ prc_own[t][c] >= 1
    /\ prc_strong' = [prc_strong EXCEPT ![c] = (@ + 1) % UsizeMod]
    /\ prc_acq' = [prc_acq EXCEPT ![t] = @ \cup prc_msg[c]]
    /\ UNCHANGED <<prc_view, prc_msg>>
    /\ IF prc_strong[c] > MAX_REFCOUNT
       THEN /\ prc_pc' = [prc_pc EXCEPT ![t] = 0 - c]
            /\ UNCHANGED prc_own
       ELSE /\ prc_own' = [prc_own EXCEPT ![t][c] = @ + 1]
            /\ UNCHANGED prc_pc
    /\ UNCHANGED <<prc_box, poolVars>>

\* std::process::abort() in clone: the process ends, with all its threads
Prc_abort(t) ==
    /\ prc_pc[t] < 0
    /\ prc_pc' = [u \in Threads |-> AbortedPc]
    /\ UNCHANGED <<prc_strong, prc_box, prc_own, prcOrd, poolVars>>

\* unsafe impl Send for Prc: a handle moves from thread t to thread u; the transfer
\* of a value between threads (spawn, join, a channel) synchronizes, so what
\* happened before t's send happens before u's next step
Prc_send(t, u, c) ==
    /\ prc_pc[t] = 0
    /\ t # u
    /\ prc_own[t][c] >= 1
    /\ prc_own' = [prc_own EXCEPT ![t][c] = @ - 1, ![u][c] = @ + 1]
    /\ prc_view' = [prc_view EXCEPT ![u] = @ \cup prc_view[t]]
    /\ UNCHANGED <<prc_strong, prc_box, prc_pc, prc_acq, prc_msg, poolVars>>

\* a drop that frees the cell whatever fetch_sub returned
Prc_drop_always(t, c) ==
    /\ prc_pc[t] = 0
    /\ prc_own[t][c] >= 1
    /\ prc_strong' = [prc_strong EXCEPT ![c] = @ - 1]
    /\ prc_own' = [prc_own EXCEPT ![t][c] = @ - 1]
    /\ prc_pc' = [prc_pc EXCEPT ![t] = c]
    /\ UNCHANGED <<prc_box, prcOrd, poolVars>>

\* a drop that only decrements the count and returns
Prc_drop_counted(t, c) ==
    /\ prc_pc[t] = 0
    /\ prc_own[t][c] >= 1
    /\ prc_strong' = [prc_strong EXCEPT ![c] = (@ + UsizeMod - 1) % UsizeMod]
    /\ prc_own' = [prc_own EXCEPT ![t][c] = @ - 1]
    /\ UNCHANGED <<prc_box, prc_pc, prcOrd, poolVars>>

\* a drop whose fetch_sub is Relaxed: it releases nothing of its own
Prc_drop_relaxed(t, c) ==
    /\ prc_pc[t] = 0
    /\ prc_own[t][c] >= 1
    /\ prc_strong' = [prc_strong EXCEPT ![c] = (@ + UsizeMod - 1) % UsizeMod]
    /\ prc_own' = [prc_own EXCEPT ![t][c] = @ - 1]
    /\ prc_pc' = [prc_pc EXCEPT ![t] = IF prc_strong[c] # 1 THEN 0 ELSE c]
    /\ prc_acq' = [prc_acq EXCEPT ![t] = @ \cup prc_msg[c]]
    /\ prc_view' = IF prc_strong[c] # 1 THEN prc_view
                   ELSE [prc_view EXCEPT ![t] = @ \cup prc_acq[t] \cup prc_msg[c]]
    /\ UNCHANGED <<prc_box, prc_msg, poolVars>>

\* a drop without the acquire fence
Prc_drop_unfenced(t, c) ==
    /\ prc_pc[t] = 0
    /\ prc_own[t][c] >= 1
    /\ prc_strong' = [prc_strong EXCEPT ![c] = (@ + UsizeMod - 1) % UsizeMod]
    /\ prc_own' = [prc_own EXCEPT ![t][c] = @ - 1]
    /\ prc_pc' = [prc_pc EXCEPT ![t] = IF prc_strong[c] # 1 THEN 0 ELSE c]
    /\ prc_msg' = [prc_msg EXCEPT ![c] = @ \cup prc_view[t]]
    /\ prc_acq' = [prc_acq EXCEPT ![t] = @ \cup prc_msg[c]]
    /\ UNCHANGED <<prc_box, prc_view, poolVars>>

\* <Prc as Drop>::drop on a handle the thread owns: strong.fetch_sub(1, Release);
\* unless the old count was 1 the call returns, otherwise it issues
\* fence(Acquire) and goes on to drop_slow.  The release read-modify-write adds
\* what happened before it to what the value it replaces had released; the thread
\* has read that value, and the fence makes what it has read happen before its
\* next step
Prc_drop(t, c) ==
    /\ prc_pc[t] = 0
    /\ prc_own[t][c] >= 1
    /\ prc_strong' = [prc_strong EXCEPT ![c] = (@ + UsizeMod - 1) % UsizeMod]
    /\ prc_own' = [prc_own EXCEPT ![t][c] = @ - 1]
    /\ prc_pc' = [prc_pc EXCEPT ![t] = IF prc_strong[c] # 1 THEN 0 ELSE c]
    /\ prc_msg' = [prc_msg EXCEPT ![c] = @ \cup prc_view[t]]
    /\ prc_acq' = [prc_acq EXCEPT ![t] = @ \cup prc_msg[c]]
    /\ prc_view' = IF prc_strong[c] # 1 THEN prc_view
                   ELSE [prc_view EXCEPT ![t] = @ \cup prc_acq[t] \cup prc_msg[c]]
    /\ UNCHANGED <<prc_box, poolVars>>

\* Prc::drop_slow: the two boxes are freed
drop_slow(t) ==
    /\ prc_pc[t] \in Cells
    /\ prc_box' = [prc_box EXCEPT ![prc_pc[t]] = "freed"]
    /\ prc_pc' = [prc_pc EXCEPT ![t] = 0]
    /\ UNCHANGED <<prc_strong, prc_own, prcOrd, poolVars>>

\* ------------------------------------------------------------------ specifications
\* the steps of the pool's calls
PoolStep(t) ==
    \/ intern(t)
    \/ to_arc(t)
    \/ insert_arc(t)
    \/ when_failed(t)
    \/ when_failed_get(t)
    \/ when_failed_insert(t)
    \/ when_failed_unlock(t)
    \/ assert_failed(t)
    \/ return(t)
    \/ drop(t)
    \/ collect_garbage(t)
    \/ gc_write(t)
    \/ retain(t)
    \/ gc_unlock(t)

\* any number of threads intern, drop and collect concurrently
Next == \E t \in Threads : (\E c \in Names : IStr_new(t, c)) \/ PoolStep(t)

Spec == Init /\ [][Next]_vars

\* the steps of a call in progress that wait for nothing
Running(t) ==
    \/ intern(t)
    \/ to_arc(t)
    \/ insert_arc(t)
    \/ when_failed_get(t)
    \/ when_failed_insert(t)
    \/ when_failed_unlock(t)
    \/ assert_failed(t)
    \/ retain(t)
    \/ gc_unlock(t)
    \/ return(t)

\* fair scheduling: a call in progress keeps taking steps, and a thread that waits
\* for gc_lock gets it if the lock is free again and again
SpecLive ==
    /\ Init /\ [][Next]_vars
    /\ \A t \in Threads :
          /\ WF_vars(Running(t))
          /\ SF_vars(when_failed(t))
          /\ SF_vars(gc_write(t))

\* the calls run one at a time: a thread steps only while every other one is idle
Alone(t) == \A u \in Threads \ {t} : pc[u] = "idle"

NextSeq ==
    \E t \in Threads :
        \/ \E c \in Names : Alone(t) /\ IStr_new(t, c)
        \/ Alone(t) /\ intern(t)
        \/ Alone(t) /\ to_arc(t)
        \/ Alone(t) /\ insert_arc(t)
        \/ Alone(t) /\ return(t)
        \/ Alone(t) /\ drop(t)
        \/ Alone(t) /\ collect_garbage(t)
        \/ Alone(t) /\ gc_write(t)
        \/ Alone(t) /\ retain(t)
        \/ Alone(t) /\ gc_unlock(t)

SpecSeq == Init /\ [][NextSeq]_vars

\* threads intern and drop concurrently and nobody calls collect_garbage; the second
\* lookup of when_failed then always hits (C28_LoserAdopts), so its retried insertion
\* is not a step of this specification
NextRace ==
    \E t \in Threads :
        \/ \E c \in Names : IStr_new(t, c)
        \/ intern(t)
        \/ to_arc(t)
        \/ insert_arc(t)
        \/ when_failed(t)
        \/ when_failed_get(t)
        \/ when_failed_unlock(t)
        \/ return(t)
        \/ drop(t)

SpecRace == Init /\ [][NextRace]_vars

\* a thread of MowThreads builds, mutates, interns and drops its MowStr while a
\* thread of EnvThreads interns into, and collects, the same pool
NextMow ==
    \/ \E t \in MowThreads :
        \/ \E c \in Names : IStr_new(t, c)
        \/ \E c \in Names : new_mut(t, c)
        \/ \E x \in Suffixes : push_str(t, x)
        \/ MowStr_intern(t)
        \/ to_mut(t)
        \/ PoolStep(t)
    \/ \E t \in EnvThreads :
        \/ \E c \in Names : IStr_new(t, c)
        \/ PoolStep(t)

SpecMow == Init /\ [][NextMow]_vars

\* one thread alone builds a MowStr from any of Bufs, reads it, mutates it, interns
\* it, takes it apart and collects the pool, one call after the other
NextVal ==
    \E t \in MowThreads :
        \/ \E c \in Bufs : IStr_new(t, c)
        \/ \E c \in Bufs : new_mut(t, c)
        \/ mut_empty(t)
        \/ \E x \in Suffixes : push_str(t, x)
        \/ \E f \in Accessors : read(t, f)
        \/ \E s \in Bufs : try_swap_mut(t, s)
        \/ \E s \in Bufs : swap_mut(t, s)
        \/ into_string(t)
        \/ MowStr_intern(t)
        \/ to_mut(t)
        \/ intern(t)
        \/ to_arc(t)
        \/ insert_arc(t)
        \/ return(t)
        \/ drop(t)
        \/ collect_garbage(t)
        \/ gc_write(t)
        \/ retain(t)
        \/ gc_unlock(t)

SpecVal == Init /\ [][NextVal]_vars

\* the value of thread t is borrowed by a clone in progress: while the &MowStr
\* lives, its owner can make no call that takes the value by &mut self or by value
Borrowed(t) == \E u \in Threads \ {t} : op[u] = "clone"

\* the lengths truncate is called with
Lengths == 0..1

\* a thread of MowThreads builds an Exclusive MowStr, mutates it, reads it, interns
\* it, asks for it to be Exclusive again and goes on after a panic of one of its
\* calls, while a thread of EnvThreads clones the value, interns into the same pool
\* and collects it
NextCaught ==
    \/ \E t \in MowThreads :
        \/ \E c \in Names : new_mut(t, c)
        \/ \E x \in Suffixes : ~Borrowed(t) /\ push_str(t, x)
        \/ ~Borrowed(t) /\ clear(t)
        \/ \E n \in Lengths : ~Borrowed(t) /\ truncate(t, n)
        \/ read(t, "as_str")
        \/ ~Borrowed(t) /\ MowStr_intern(t)
        \/ ~Borrowed(t) /\ to_mut(t)
        \/ catch_unwind(t)
        \/ intern(t)
        \/ to_arc(t)
        \/ insert_arc(t)
        \/ when_failed(t)
        \/ when_failed_get(t)
        \/ when_failed_insert(t)
        \/ when_failed_unlock(t)
        \/ assert_failed(t)
        \/ return(t)
        \/ ~Borrowed(t) /\ drop(t)
        \/ collect_garbage(t)
        \/ gc_write(t)
        \/ retain(t)
        \/ gc_unlock(t)
    \/ \E u \in EnvThreads :
        \/ \E c \in Names : IStr_new(u, c)
        \/ \E t \in MowThreads : MowStr_clone(u, t)
        \/ PoolStep(u)

SpecCaught == Init /\ [][NextCaught]_vars

\* a thread of MowThreads builds, mutates, interns and drops its MowStr and collects
\* the pool; a thread of EnvThreads clones that value, keeps the clone and drops it
NextClone ==
    \/ \E t \in MowThreads :
        \/ \E c \in Names : ~Borrowed(t) /\ IStr_new(t, c)
        \/ \E c \in Names : ~Borrowed(t) /\ new_mut(t, c)
        \/ \E x \in Suffixes : ~Borrowed(t) /\ push_str(t, x)
        \/ ~Borrowed(t) /\ MowStr_intern(t)
        \/ ~Borrowed(t) /\ to_mut(t)
        \/ ~Borrowed(t) /\ drop(t)
        \/ intern(t)
        \/ to_arc(t)
        \/ insert_arc(t)
        \/ return(t)
        \/ collect_garbage(t)
        \/ gc_write(t)
        \/ retain(t)
        \/ gc_unlock(t)
    \/ \E u \in EnvThreads :
        \/ \E t \in MowThreads : MowStr_clone(u, t)
        \/ intern(u)
        \/ to_arc(u)
        \/ insert_arc(u)
        \/ return(u)
        \/ drop(u)

SpecClone == Init /\ [][NextClone]_vars

\* threads allocate Prc cells, clone, send and drop their handles concurrently
NextPrc ==
    \E t \in Threads :
        \/ \E c \in Cells : from_box(t, c)
        \/ \E c \in Cells : prc_strong[c] < MaxCount /\ Prc_clone(t, c)
        \/ \E c \in Cells : \E u \in Threads : Prc_send(t, u, c)
        \/ \E c \in Cells : Prc_drop(t, c)
        \/ drop_slow(t)

SpecPrc == Init /\ [][NextPrc]_vars

\* fair scheduling of the Prc threads: a drop that has seen the count 1 goes on to
\* drop_slow
SpecPrcLive == Init /\ [][NextPrc]_vars /\ \A t \in Threads : WF_vars(drop_slow(t))

\* the cell whose data the threads access
OrdCells == {1}

\* threads allocate one Prc cell, clone, send and drop its handles and access its
\* data through them
NextPrcOrd ==
    \E t \in Threads :
        \/ \E c \in OrdCells : from_box(t, c)
        \/ \E c \in OrdCells : prc_strong[c] < MaxCount /\ Prc_clone(t, c)
        \/ \E c \in OrdCells : \E u \in Threads : Prc_send(t, u, c)
        \/ \E c \in OrdCells : Prc_deref(t, c)
        \/ \E c \in OrdCells : Prc_drop(t, c)
        \/ drop_slow(t)

SpecPrcOrd == Init /\ [][NextPrcOrd]_vars

\* the cell whose count the threads push to its limit
MaxCells == {1}

\* threads clone, send and drop the handles of one Prc cell without a bound on their
\* number, up to the abort
NextPrcMax ==
    \E t \in Threads :
        \/ \E c \in MaxCells : from_box(t, c)
        \/ \E c \in MaxCells : Prc_clone(t, c)
        \/ \E c \in MaxCells : \E u \in Threads : Prc_send(t, u, c)
        \/ \E c \in MaxCells : Prc_drop(t, c)
        \/ drop_slow(t)
        \/ Prc_abort(t)

SpecPrcMax == Init /\ [][NextPrcMax]_vars

\* ------------------------------------------------------------------ properties
\* the threads that hold an IStr (or a shared MowStr)
Holding == {t \in Threads : val[t].tag = "I"}

\* the number of external handles to allocation e that callers hold
Holders(e) == Cardinality({t \in Holding : val[t].cell = e})

\* the handles thread t holds or is about to be handed by when_failed
Handles(t) ==
    (IF val[t].tag = "I" THEN {val[t].cell} ELSE {})
        \cup (IF pc[t] = "when_failed_unlock" THEN {r[t]} ELSE {})

\* C1: two handles that are live at the same time and were returned by intern for
\* equal content are pointer-identical, under every interleaving of intern, drop
\* and collect_garbage.
C1_Identity ==
    \A t, u \in Holding : val[t].req = val[u].req => Intern_eq(val[t].cell, val[u].cell)

\* two threads hold handles for the same content, one of them just returned by intern
C1_Witness ==
    \E t, u \in Holding :
        /\ t # u
        /\ val[t].req = val[u].req
        /\ pc[t] = "done" /\ op[t] = "IStr_new"

\* C2: a cell for which a caller holds a handle, or is being handed one by intern, is
\* allocated and is the pool's one entry for its content; collect_garbage has not
\* removed it.
C2_GcSafety ==
    \A t \in Threads : \A e \in Handles(t) :
        /\ e \in Live
        /\ e \in pool
        /\ Lookup(data[e]) = {e}

\* a sweep has run to its end while another thread holds a handle
C2_Witness ==
    \E t, u \in Threads :
        /\ t # u
        /\ pc[u] = "gc_unlock"
        /\ val[t].tag = "I"

\* C3: every handle returned by intern(c) has content exactly c, while threads intern
\* and drop the same content and others collect garbage.
C3_Content ==
    \A t \in Holding : val[t].cell \in Live /\ data[val[t].cell] = val[t].req

\* intern has just returned a handle to a cell that the other thread holds too,
\* while that thread is about to collect garbage
C3_Witness ==
    \E t, u \in Threads :
        /\ pc[t] = "done" /\ op[t] = "IStr_new" /\ val[t].tag = "I"
        /\ pc[u] = "gc_write"
        /\ Holders(val[t].cell) = 2

\* C4: intern never crashes: in when_failed, whenever the second lookup finds no
\* entry the retried insertion succeeds, so assert!(s) never fails.
C4_AssertHolds == \A t \in Threads : pc[t] # "assert_failed"

\* a call of collect_garbage has swept every shard below i
SweptBelow(i) == \A e \in pool : ShardOf(data[e]) < i => Holders(e) >= 1

\* C5: when a collect_garbage call runs with no concurrent operation, after its sweep
\* the pool holds exactly the allocations that have an external holder (the holders
\* do not change during the call, and each of them held a pool entry when it
\* started); every entry without one is gone, shard by shard, and the entries that
\* remain still have the content their holders asked for.
C5_GcComplete ==
    \A t \in Threads :
        /\ pc[t] = "retain" => SweptBelow(shard[t])
        /\ pc[t] = "gc_unlock" =>
            /\ pool = {e \in Live : Holders(e) >= 1}
            /\ \A u \in Holding : data[val[u].cell] = val[u].req

\* a sweep has ended with the collecting thread itself holding a handle, and has
\* kept that entry
C5_Witness ==
    \E t \in Threads :
        /\ pc[t] = "gc_unlock"
        /\ val[t].tag = "I"
        /\ pool = {val[t].cell}

\* C6: entries leave the pool only in a sweep of collect_garbage; a step adds at most
\* one entry, of a content the pool did not hold, and it is the inserting thread's
\* own Arc; an intern whose lookup hits adds none, one whose insertion succeeds adds
\* exactly one, and a drop of a handle (the last external one too) leaves the pool
\* as it is.
C6_Frame ==
    [][ /\ pool \ pool' # {} => \E t \in Threads : pc[t] = "retain"
        /\ Cardinality(pool' \ pool) <= 1
        /\ \A e \in pool' \ pool :
              /\ Lookup(data'[e]) = {}
              /\ \E t \in Threads :
                    pc[t] \in {"insert_arc", "when_failed_insert"} /\ arc[t] = e
        /\ \A t \in Threads :
              /\ (pc[t] = "intern" /\ pc'[t] = "done") => pool' = pool
              /\ (pc[t] = "insert_arc" /\ pc'[t] = "done") => pool' = pool \cup {arc[t]}
              /\ (pc[t] = "idle" /\ val[t].tag = "I" /\ val'[t].tag = "none") =>
                    pool' = pool
      ]_vars

\* the last external handle of an entry has been dropped and the entry is still in
\* the pool, with nobody collecting
C6_Witness ==
    /\ \A t \in Threads : pc[t] = "idle" /\ val[t].tag = "none"
    /\ \E e \in pool : strong[e] = 1

\* C7: for two handles of the same pool that are live at the same time, handle
\* equality (a comparison of pointers) holds exactly when the contents are equal.
C7_EqIffContent ==
    \A t, u \in Holding :
        Intern_eq(val[t].cell, val[u].cell) <=> data[val[t].cell] = data[val[u].cell]

\* two threads hold handles interned from different contents
C7_Witness ==
    \E t, u \in Holding : data[val[t].cell] # data[val[u].cell]

\* C8: push_str(x) on a Shared value with content c leaves the value Exclusive with
\* content c followed by x.
C8_MutationPromotes ==
    \A t \in Threads :
        (pc[t] = "done" /\ op[t] = "push_str" /\ old[t].tag = "I") =>
            /\ val[t].tag = "M"
            /\ val[t].some
            /\ as_ref(val[t]) = old[t].buf \o a[t]

\* push_str has just run on a Shared value whose content was not empty
C8_Witness ==
    \E t \in Threads :
        /\ pc[t] = "done" /\ op[t] = "push_str" /\ old[t].tag = "I"
        /\ old[t].buf # <<>>

\* C9: when intern() returns on a value that was Exclusive with content c, the value is
\* Shared with content c and its cell is the pool's one entry for c: the cell a
\* direct intern of c returns.
C9_InternShares ==
    \A t \in Threads :
        (pc[t] = "done" /\ op[t] = "MowStr_intern" /\ old[t].tag = "M") =>
            /\ val[t].tag = "I"
            /\ val[t].cell \in Live
            /\ as_ref(val[t]) = old[t].buf
            /\ Lookup(old[t].buf) = {val[t].cell}

\* intern() has returned on an Exclusive value whose content was already in the pool
\* and held by another thread: the value shares that thread's cell
C9_Witness ==
    \E t, u \in Threads :
        /\ t # u
        /\ pc[t] = "done" /\ op[t] = "MowStr_intern" /\ old[t].tag = "M"
        /\ val[t].tag = "I" /\ val[u].tag = "I"
        /\ val[t].cell = val[u].cell

\* the values callers hold
HeldValues == {val[t] : t \in {u \in Threads : Usable(val[u])}}

\* the values callers hold, the Exclusive value of the content of each of them, and
\* the Exclusive value of every name
SomeValues ==
    HeldValues \cup {ValM(as_ref(v)) : v \in HeldValues} \cup {ValM(c) : c \in Names}

\* C10: two MowStr values compare equal exactly when their contents are equal, and
\* values of equal content have equal hashes, whatever their tags: a held value
\* against every held value and against Exclusive values of the same and of other
\* contents, in both orders.
C10_ContentEq ==
    \A v \in HeldValues : \A w \in SomeValues :
        /\ MowStr_eq(v, w) <=> as_ref(v) = as_ref(w)
        /\ MowStr_eq(w, v) <=> as_ref(w) = as_ref(v)
        /\ as_ref(v) = as_ref(w) => MowStr_hash(v) = MowStr_hash(w)

\* a Shared value and an Exclusive value of the same content are held at once
C10_Witness ==
    \E t, u \in Threads :
        /\ val[t].tag = "I" /\ val[u].tag = "M" /\ val[u].some
        /\ as_ref(val[t]) = as_ref(val[u])

\* C11: the ordering of two MowStr values is the ordering of their contents, whatever
\* their tags: cmp of a held value and any other value, in both orders, is the
\* lexicographic ordering of the two contents, so a Shared and an Exclusive value of
\* the same content compare Equal.
C11_OrderByContent ==
    \A v \in HeldValues : \A w \in SomeValues :
        /\ MowStr_cmp(v, w) = str_cmp(as_ref(v), as_ref(w))
        /\ MowStr_cmp(w, v) = str_cmp(as_ref(w), as_ref(v))

\* C12: try_swap_mut(s) on a Shared value returns None and leaves the tag, the cell
\* and the cell's content as they were; on an Exclusive value with buffer b it
\* returns Some(b) and leaves the value Exclusive with buffer s.
C12_StrictSwap ==
    [][ \A t \in Threads :
          (pc[t] = "idle" /\ op'[t] = "try_swap_mut") =>
              IF val[t].tag = "I"
              THEN /\ ret'[t] = RetNone
                   /\ val'[t] = val[t]
                   /\ val[t].cell \in DOMAIN data'
                   /\ data'[val[t].cell] = data[val[t].cell]
              ELSE /\ ret'[t] = RetSome(val[t].buf)
                   /\ val'[t] = ValM(a'[t])
      ]_vars

\* try_swap_mut has returned None on a Shared value
C12_Witness ==
    \E t \in Threads :
        /\ pc[t] = "done" /\ op[t] = "try_swap_mut"
        /\ ret[t] = RetNone /\ val[t].tag = "I"

\* try_swap_mut has returned the old buffer of an Exclusive value that now holds a
\* different one
C12_WitnessSome ==
    \E t \in Threads :
        /\ pc[t] = "done" /\ op[t] = "try_swap_mut"
        /\ ret[t].tag = "Some" /\ val[t].tag = "M" /\ val[t].buf # ret[t].buf

\* C13: to_mut on an Exclusive value changes nothing: the value, the pool, the
\* strong counts and the cells are as before.  On a Shared value with content c it
\* leaves the value Exclusive with content c; the cell stays allocated with content
\* c and the pool has the same entries.
C13_EnsureExclusive ==
    [][ \A t \in Threads :
          (pc[t] = "idle" /\ op'[t] = "to_mut") =>
              IF val[t].tag = "M"
              THEN /\ val'[t] = val[t]
                   /\ pool' = pool /\ strong' = strong /\ data' = data
              ELSE /\ val'[t] = ValM(data[val[t].cell])
                   /\ val[t].cell \in DOMAIN data'
                   /\ data'[val[t].cell] = data[val[t].cell]
                   /\ pool' = pool
      ]_vars

\* to_mut has run on a Shared value whose cell another thread holds too: the value
\* is Exclusive with the content that thread still sees
C13_Witness ==
    \E t, u \in Threads :
        /\ pc[t] = "done" /\ op[t] = "to_mut" /\ old[t].tag = "I"
        /\ val[t].tag = "M" /\ val[u].tag = "I"
        /\ as_ref(val[u]) = val[t].buf

\* C14: intern() on a value that is already Shared returns at once and changes
\* nothing: the value (tag and cell), every strong count, the cells and the pool are
\* as before, and no call into the pool is made.  So a second intern() after a
\* first one, which left the value Shared, has no further effect.
C14_InternNoOp ==
    [][ \A t \in Threads :
          (pc[t] = "idle" /\ op'[t] = "MowStr_intern" /\ val[t].tag = "I") =>
              /\ pc'[t] = "done"
              /\ val'[t] = val[t]
              /\ strong' = strong /\ data' = data /\ pool' = pool
      ]_vars

\* intern() has returned on a value that was already Shared, and its cell is held by
\* this value and the pool only
C14_Witness ==
    \E t \in Threads :
        /\ pc[t] = "done" /\ op[t] = "MowStr_intern" /\ old[t].tag = "I"
        /\ val[t].tag = "I" /\ strong_count(val[t].cell) = 2

\* C15: a read accessor (as_str/as_ref, try_istr, try_string, is_interned,
\* is_mutable, hash, ==) leaves the value, with its tag, content and cell, the
\* strong counts, the cells and the pool unchanged.
C15_ReadFrame ==
    [][ \A t \in Threads :
          (pc[t] = "idle" /\ op'[t] = "read") =>
              /\ val'[t] = val[t]
              /\ as_ref(val[t]) = old'[t].buf
              /\ strong' = strong /\ data' = data /\ pool' = pool
      ]_vars

\* try_istr has returned the handle of a Shared value, which is still Shared
C15_Witness ==
    \E t \in Threads :
        /\ pc[t] = "done" /\ op[t] = "read"
        /\ ret[t].tag = "Some" /\ val[t].tag = "I" /\ ret[t].buf = as_ref(val[t])

\* C16: a constructor that interns (new, from_string and the other from_ functions
\* that go through the pool) returns a Shared value and a mutable constructor
\* (new_mut, mut_empty, from_string_mut) returns an Exclusive value, each with the
\* content it was given.
C16_Constructors ==
    \A t \in Threads :
        /\ (pc[t] = "done" /\ op[t] = "IStr_new") =>
              /\ val[t].tag = "I"
              /\ val[t].cell \in Live
              /\ as_ref(val[t]) = a[t]
        /\ (pc[t] = "done" /\ op[t] = "new_mut") => val[t] = ValM(a[t])

\* new has returned a Shared value whose cell was already in the pool, which had
\* another entry too
C16_Witness ==
    \E t \in Threads :
        /\ pc[t] = "done" /\ op[t] = "IStr_new" /\ val[t].tag = "I"
        /\ a[t] # <<>> /\ Cardinality(pool) >= 2

\* mut_empty has returned an Exclusive value with the empty buffer
C16_WitnessMut ==
    \E t \in Threads :
        /\ pc[t] = "done" /\ op[t] = "new_mut"
        /\ val[t].tag = "M" /\ val[t].some /\ val[t].buf = <<>>

\* C17: constructing an Exclusive value (new_mut) and mutating or re-asking for an
\* Exclusive value (push_str, to_mut on M) make no call into the pool: the step is
\* the whole operation, and the pool's entries, every strong count and the cells are
\* unchanged by it.
C17_ExclusiveFrame ==
    [][ \A t \in Threads :
          ( /\ pc[t] = "idle"
            /\ \/ op'[t] = "new_mut"
               \/ op'[t] \in {"push_str", "to_mut"} /\ val[t].tag = "M" ) =>
              /\ pc'[t] = "done"
              /\ val'[t].tag = "M"
              /\ pool' = pool /\ strong' = strong /\ data' = data
      ]_vars

\* push_str has run on an Exclusive value while the pool holds the entry of the
\* content the value had before, held by the other thread
C17_Witness ==
    \E t, u \in Threads :
        /\ pc[t] = "done" /\ op[t] = "push_str" /\ old[t].tag = "M"
        /\ val[u].tag = "I" /\ as_ref(val[u]) = old[t].buf
        /\ val[t].tag = "M"

\* C18: the view of an Exclusive value built from buffer b is b, for every b, the
\* empty one too: it holds for the value new_mut / mut_empty has just returned and
\* for the Exclusive value of every string; and into_string of an Exclusive value
\* returns the buffer the value held, which is consumed.
C18_RoundTrip ==
    /\ \A b \in Strs : as_ref(ValM(b)) = b /\ into_string_of(ValM(b)) = b
    /\ \A t \in Threads :
        /\ (pc[t] = "done" /\ op[t] = "new_mut") =>
              /\ as_ref(val[t]) = a[t]
              /\ into_string_of(val[t]) = a[t]
        /\ (pc[t] = "done" /\ op[t] = "into_string" /\ old[t].tag = "M") =>
              /\ ret[t] = RetSome(old[t].buf)
              /\ val[t] = NoVal

\* into_string has returned the empty buffer of an Exclusive value
C18_Witness ==
    \E t \in Threads :
        /\ pc[t] = "done" /\ op[t] = "into_string" /\ old[t].tag = "M"
        /\ ret[t] = RetSome(<<>>)

\* into_string has returned a buffer of two bytes of an Exclusive value
C18_WitnessLong ==
    \E t \in Threads :
        /\ pc[t] = "done" /\ op[t] = "into_string" /\ old[t].tag = "M"
        /\ ret[t].tag = "Some" /\ Len(ret[t].buf) = 2

\* the number of live Prc handles to cell c that the threads of ts own
RECURSIVE PrcHandles(_, _)
PrcHandles(c, ts) ==
    IF ts = {} THEN 0
    ELSE LET t == CHOOSE x \in ts : TRUE IN prc_own[t][c] + PrcHandles(c, ts \ {t})

\* C19: the strong count of a Prc cell is the number of live handles to it, in every
\* state reached by from_box, clone, drop and moves between threads in any
\* interleaving: 1 after from_box, one more after each clone, one less after each
\* drop.
C19_PrcCount == \A c \in Cells : prc_strong[c] = PrcHandles(c, Threads)

\* two threads own three handles to one cell between them
C19_Witness ==
    \E c \in Cells : \E t, u \in Threads :
        /\ t # u
        /\ prc_own[t][c] = 2 /\ prc_own[u][c] = 1
        /\ prc_strong[c] = 3

\* C20: every live Prc handle refers to a cell that is allocated and has a strong
\* count of at least 1, and a cell is freed only once its strong count is 0: the
\* thread that runs drop_slow saw the count go from 1 to 0 and no handle is left.
C20_PrcNoUseAfterFree ==
    /\ \A t \in Threads : \A c \in Cells :
          prc_own[t][c] >= 1 => prc_box[c] = "leaked" /\ prc_strong[c] >= 1
    /\ \A t \in Threads :
          prc_pc[t] \in Cells =>
              /\ prc_box[prc_pc[t]] = "leaked"
              /\ prc_strong[prc_pc[t]] = 0
              /\ PrcHandles(prc_pc[t], Threads) = 0
    /\ \A c \in Cells : prc_box[c] = "freed" => prc_strong[c] = 0

\* a thread has dropped the last handle of a cell and is about to free it, while
\* another cell is shared by two threads
C20_Witness ==
    \E t \in Threads : \E d \in Cells :
        /\ prc_pc[t] \in Cells /\ prc_pc[t] # d
        /\ \E u, w \in Threads : u # w /\ prc_own[u][d] >= 1 /\ prc_own[w][d] >= 1

\* the threads whose clone of cell c has incremented the count and is about to abort
Aborting(c) == {t \in Threads : prc_pc[t] = 0 - c}

\* abort() has been called
ProcessAborted == \E t \in Threads : prc_pc[t] = AbortedPc

\* C21 as stated: in no state of a process that has not aborted is a strong count
\* above MAX_REFCOUNT.
C21_WithinMax ==
    ~ProcessAborted => \A c \in Cells : prc_strong[c] <= MAX_REFCOUNT

\* C21, amended: clone aborts when the count it found was already above
\* MAX_REFCOUNT.  While the process has not aborted, the counter holds the number of
\* live handles plus one for every thread between its fetch_add and its abort, so
\* it has not wrapped; there are at most MAX_REFCOUNT + 1 live handles, and the count
\* is above MAX_REFCOUNT + 1 only while some clone is about to abort.
C21_NoWrap ==
    ~ProcessAborted =>
        \A c \in Cells :
            /\ prc_strong[c] = PrcHandles(c, Threads) + Cardinality(Aborting(c))
            /\ PrcHandles(c, Threads) <= MAX_REFCOUNT + 1
            /\ prc_strong[c] <= MAX_REFCOUNT + 1 + NThreads
            /\ MAX_REFCOUNT + 1 + NThreads < UsizeMod

\* every thread has incremented the count above MAX_REFCOUNT + 1 and is about to abort
C21_Witness ==
    /\ \A t \in Threads : prc_pc[t] < 0
    /\ \E c \in Cells : prc_strong[c] = MAX_REFCOUNT + 1 + NThreads

\* C22: when MowStr::intern fails because the pool's intern panics, the value is
\* still Exclusive and still holds the content it had before the call.
C22_FailedInternKeeps ==
    \A t \in Threads :
        (pc[t] = "panicked" /\ op[t] = "MowStr_intern") =>
            /\ val[t].tag = "M"
            /\ val[t].some
            /\ val[t].buf = old[t].buf

\* the steps of the common path of Pool::intern: the first lookup, to_arc and the
\* first insertion
CommonStep(t) == intern(t) \/ to_arc(t) \/ insert_arc(t)

\* the threads that hold gc_lock, shared or exclusively
LockHolders == gc_lock.readers \cup ({gc_lock.writer} \ {NoThread})

\* C23: an intern call on its common path (before the first lookup, before to_arc or
\* before the first insertion) does not hold gc_lock and its next step can be taken
\* in every state, also while a collect_garbage call holds the lock exclusively;
\* a thread holds the lock only inside when_failed or collect_garbage.
C23_CommonPathLockFree ==
    \A t \in Threads :
        /\ pc[t] \in {"intern", "to_arc", "insert_arc"} =>
              /\ t \notin LockHolders
              /\ ENABLED CommonStep(t)
        /\ t \in LockHolders =>
              pc[t] \in {"when_failed_get", "when_failed_insert", "when_failed_unlock",
                         "assert_failed", "retain", "gc_unlock"}

\* an intern call is about to insert while the other thread holds gc_lock exclusively
\* and has swept the first shard
C23_Witness ==
    \E t, u \in Threads :
        /\ pc[t] = "insert_arc"
        /\ gc_lock.writer = u /\ pc[u] = "retain" /\ shard[u] > 1

\* the threads inside the critical section of when_failed
Reconciling ==
    {t \in Threads : pc[t] \in {"when_failed_get", "when_failed_insert",
                                 "when_failed_unlock", "assert_failed"}}

\* the threads inside the sweep of collect_garbage
Sweeping == {t \in Threads : pc[t] \in {"retain", "gc_unlock"}}

\* C24: while a collect_garbage sweep runs no thread is inside the critical section
\* of when_failed and no other sweep runs; the sweeping thread is the writer of
\* gc_lock and the reconciling threads are its readers, of which there may be
\* several at once.
C24_LockDiscipline ==
    /\ Sweeping # {} => Reconciling = {}
    /\ Cardinality(Sweeping) <= 1
    /\ Sweeping = {gc_lock.writer} \ {NoThread}
    /\ Reconciling = gc_lock.readers

\* two threads are inside the critical section of when_failed at the same time
C24_Witness == Cardinality(Reconciling) >= 2

\* C25: under fair scheduling every intern call eventually returns a handle and
\* every collect_garbage call eventually returns.
C25_Terminates ==
    \A t \in Threads :
        /\ (pc[t] = "intern") ~> (pc[t] = "done" /\ val[t].tag = "I")
        /\ (pc[t] = "gc_write") ~> (pc[t] = "done")

\* under fair scheduling every call eventually returns or panics
C25_ReturnsOrPanics ==
    \A t \in Threads :
        /\ (pc[t] = "intern") ~> (pc[t] \in {"done", "panicked"})
        /\ (pc[t] = "gc_write") ~> (pc[t] = "done")

\* C26: an entry that intern inserts, by its first insertion or by the retry in
\* when_failed, has a strong count of at least 2 in the state where it first is in
\* the pool, and keeps it until the call has returned: the entry a call has
\* inserted and not yet returned is never one that a sweep removes.
C26_TwoReferences ==
    [][ /\ \A e \in pool' \ pool : strong_count(e)' >= 2
        /\ \A t \in Threads :
              (pc[t] \in {"done", "when_failed_unlock"}) =>
                  \A e \in Handles(t) \cap pool :
                      /\ strong_count(e) >= 2
                      /\ \A i \in 1..NShards : e \notin Swept(i)
      ]_vars

\* intern has inserted a new entry and not yet returned, and a collector is about to
\* sweep the entry's shard
C26_Witness ==
    \E t, u \in Threads :
        /\ pc[t] = "done" /\ op[t] = "IStr_new" /\ val[t].tag = "I"
        /\ strong_count(val[t].cell) = 2
        /\ pc[u] = "retain" /\ shard[u] = ShardOf(data[val[t].cell])

\* the number of handles to allocation e outside the pool: a thread holds handles
\* through its value, through the Arc of its intern call in progress and through the
\* result r of when_failed (which is that same Arc when the retried insertion
\* succeeded)
External(e) ==
    Cardinality({t \in Threads : val[t].tag = "I" /\ val[t].cell = e})
        + Cardinality({t \in Threads : arc[t] = e})
        + Cardinality({t \in Threads : r[t] = e /\ arc[t] # e})

\* C27: every pool entry is allocated and its strong count is 1, for the pool's own
\* reference, plus the number of live handles outside the pool, those held by intern
\* calls in progress included; so it is at least 1 while the entry is in the pool.
C27_Accounting ==
    \A e \in pool :
        /\ e \in Live
        /\ strong[e] = 1 + External(e)
        /\ strong[e] >= 1

\* an entry is held by the pool, by one caller and by an intern call in progress
\* that has just adopted it in when_failed
C27_Witness ==
    \E t, u \in Threads :
        /\ pc[t] = "when_failed_unlock" /\ r[t] \in pool /\ r[t] # arc[t]
        /\ val[u].tag = "I" /\ val[u].cell = r[t]
        /\ strong[r[t]] = 3

\* C28: while no collect_garbage runs, an entry stays in the pool once inserted, so
\* the pool's entry for a content is the one inserted first; every intern call
\* returns a handle to the pool's one entry for its content, the second lookup of
\* when_failed always finds it, and the allocations that exist are the pool's
\* entries and the Arcs of calls still in progress: a losing thread's own allocation
\* is freed when its call returns.
C28_LoserAdopts ==
    [][ /\ pool \subseteq pool'
        /\ \A t \in Threads :
              /\ pc[t] = "done" =>
                    /\ val[t].tag = "I"
                    /\ Lookup(a[t]) = {val[t].cell}
                    /\ arc[t] = NoAlloc
              /\ pc[t] = "when_failed_get" => Lookup(data[arc[t]]) # {}
        /\ \A c \in Names : Cardinality(Lookup(c)) <= 1
        /\ Live = pool \cup {arc[t] : t \in {u \in Threads : arc[u] # NoAlloc}}
      ]_vars

\* a thread that lost the race has dropped nothing yet and is about to return the
\* winner's cell, which the winner holds
C28_Witness ==
    \E t, u \in Threads :
        /\ pc[t] = "when_failed_unlock" /\ r[t] # arc[t]
        /\ arc[t] \in Live /\ arc[t] \notin pool
        /\ val[u].tag = "I" /\ val[u].cell = r[t]

\* C29: the content of a cell never changes while the cell exists; a step that
\* mutates a MowStr (push_str, to_mut) leaves every other thread's value, the content
\* it reads, the pool's entries and their contents as they were, also when the
\* mutated value shared its cell with them.
C29_SharedImmutable ==
    [][ /\ \A e \in DOMAIN data \cap DOMAIN data' : data'[e] = data[e]
        /\ \A t \in Threads :
              (pc[t] = "idle" /\ op'[t] \in {"push_str", "to_mut"}) =>
                  /\ \A u \in Threads \ {t} :
                        /\ val'[u] = val[u]
                        /\ Usable(val[u]) => as_ref(val[u])' = as_ref(val[u])
                  /\ pool' = pool
                  /\ \A e \in pool : e \in DOMAIN data' /\ data'[e] = data[e]
      ]_vars

\* push_str has run on a Shared value whose cell the other thread holds too: that
\* thread still reads the original content and the value reads the longer one
C29_Witness ==
    \E t, u \in Threads :
        /\ pc[t] = "done" /\ op[t] = "push_str" /\ old[t].tag = "I"
        /\ val[u].tag = "I" /\ as_ref(val[u]) = old[t].buf
        /\ val[t].tag = "M" /\ as_ref(val[t]) = old[t].buf \o a[t]

\* C30: in every reachable state the pool holds at most one entry of each content,
\* under every interleaving of intern, drop and collect_garbage.
C30_PoolUnique ==
    \A e, f \in pool : data[e] = data[f] => e = f

\* the pool holds entries of two contents and a thread's insertion of a content that
\* the pool holds has just been refused
C30_Witness ==
    /\ Cardinality(pool) = 2
    /\ \E t \in Threads :
          /\ pc[t] = "when_failed"
          /\ arc[t] \notin pool
          /\ Lookup(data[arc[t]]) # {}

\* C31: swap_mut(s) leaves the value Exclusive with buffer s whatever it was
\* before.  On an Exclusive value with buffer b it returns Some(b) and touches no
\* strong count; on a Shared value it returns None and releases the handle: the
\* strong count of the cell goes down by one.  The pool's entries stay as they
\* were.
C31_Swap ==
    [][ \A t \in Threads :
          (pc[t] = "idle" /\ op'[t] = "swap_mut") =>
              /\ val'[t] = ValM(a'[t])
              /\ pool' = pool
              /\ IF val[t].tag = "I"
                 THEN /\ ret'[t] = RetNone
                      /\ (IF val[t].cell \in DOMAIN strong' THEN strong'[val[t].cell] ELSE 0)
                            = strong[val[t].cell] - 1
                 ELSE /\ ret'[t] = RetSome(val[t].buf)
                      /\ strong' = strong
      ]_vars

\* swap_mut has returned None on a Shared value, which is now Exclusive with another
\* content, and the pool alone holds the cell the value shared
C31_Witness ==
    \E t \in Threads :
        /\ pc[t] = "done" /\ op[t] = "swap_mut" /\ old[t].tag = "I"
        /\ ret[t] = RetNone /\ val[t] = ValM(a[t]) /\ a[t] # old[t].buf
        /\ \E e \in pool : data[e] = old[t].buf /\ strong[e] = 1

\* swap_mut has returned the old buffer of an Exclusive value that now holds a
\* different one
C31_WitnessSome ==
    \E t \in Threads :
        /\ pc[t] = "done" /\ op[t] = "swap_mut" /\ old[t].tag = "M"
        /\ ret[t] = RetSome(old[t].buf) /\ val[t].tag = "M" /\ val[t].buf # ret[t].buf

\* C32: cloning a Shared value is one step that gives a Shared value on the same
\* cell, whose strong count goes up by one, and makes no call into the pool;
\* cloning an Exclusive value with buffer b goes into the pool's intern with b, and
\* when the clone returns it is Shared with content b.  In both cases the original
\* has the tag and the content it had when clone was called.
C32_Clone ==
    [][ \A u \in Threads : \A t \in MowThreads \ {u} :
          /\ (pc[u] = "idle" /\ op'[u] = "clone") =>
                /\ val'[t] = val[t]
                /\ pool' = pool
                /\ IF val[t].tag = "I"
                   THEN /\ pc'[u] = "done"
                        /\ val'[u].tag = "I" /\ val'[u].cell = val[t].cell
                        /\ strong'[val[t].cell] = strong[val[t].cell] + 1
                   ELSE /\ pc'[u] = "intern"
                        /\ a'[u] = val[t].buf
                        /\ strong' = strong
          /\ (op[u] = "clone" /\ pc[u] # "done" /\ pc'[u] = "done") =>
                /\ val'[u].tag = "I"
                /\ val'[u].cell \in pool'
                /\ data'[val'[u].cell] = old[u].buf
                /\ val'[t] = val[t]
                /\ val[t].tag = old[u].tag
                /\ as_ref(val[t]) = old[u].buf
      ]_vars

\* the clone of an Exclusive value has returned: it is Shared, the original is
\* still Exclusive, and the two have the same content, of two bytes
C32_Witness ==
    \E u \in Threads : \E t \in MowThreads \ {u} :
        /\ pc[u] = "done" /\ op[u] = "clone" /\ old[u].tag = "M"
        /\ val[u].tag = "I" /\ val[t].tag = "M" /\ val[t].some
        /\ val[t].buf = data[val[u].cell] /\ Len(val[t].buf) = 2

\* the clone of a Shared value has returned: the two values are Shared on one cell,
\* which the pool holds too
C32_WitnessShared ==
    \E u \in Threads : \E t \in MowThreads \ {u} :
        /\ pc[u] = "done" /\ op[u] = "clone" /\ old[u].tag = "I"
        /\ val[u].tag = "I" /\ val[t].tag = "I" /\ val[u].cell = val[t].cell
        /\ strong_count(val[t].cell) = 3

\* the public operations of MowStr that take the value by &mut self
MutOps == {"push_str", "MowStr_intern", "to_mut", "try_swap_mut", "swap_mut"}

\* C33: when a public operation on a MowStr has returned normally and the value is
\* Exclusive, the value holds a buffer (the inner Option is Some); and after to_mut
\* has returned the value is Exclusive, so the `panic!("never")` branch of mutdown
\* cannot be taken.
C33_WellFormed ==
    \A t \in Threads :
        /\ (pc[t] = "done" /\ op[t] \in MutOps /\ val[t].tag = "M") => val[t].some
        /\ (pc[t] = "done" /\ op[t] = "to_mut") => val[t].tag = "M"

\* the part of C33 about mutdown alone: after to_mut has returned the value is
\* Exclusive
C33_NeverBranch ==
    \A t \in Threads : (pc[t] = "done" /\ op[t] = "to_mut") => val[t].tag = "M"

\* the last call of thread t was a mutating operation that found its value Shared:
\* old[t].buf is the content of the cell the value gave up
Released(t) ==
    /\ pc[t] = "done"
    /\ op[t] \in {"to_mut", "push_str"}
    /\ old[t].tag = "I"

\* C34: a mutating operation (to_mut, push_str) on a Shared value that is the only
\* holder of its cell besides the pool leaves the entry in the pool with strong
\* count 1; a sweep of the entry's shard that finds the count still 1 removes the
\* entry and frees the cell; and once the pool has no entry of the old content, an
\* intern of that content misses and inserts a new allocation, which was not in the
\* pool, with strong count 2.
C34_PromotionReleases ==
    [][ \A t \in MowThreads : \A u \in Threads \ {t} :
          /\ ( /\ pc[t] = "idle" /\ op'[t] \in {"to_mut", "push_str"}
               /\ val[t].tag = "I" /\ val[t].cell \in pool
               /\ strong[val[t].cell] = 2 ) =>
                 /\ val'[t].tag = "M"
                 /\ val[t].cell \in pool'
                 /\ strong'[val[t].cell] = 1
                 /\ data'[val[t].cell] = data[val[t].cell]
          /\ ( /\ Released(t) /\ pc[u] = "retain" /\ shard'[u] # shard[u]
               /\ shard[u] = ShardOf(old[t].buf) ) =>
                 \A e \in Lookup(old[t].buf) :
                     strong[e] = 1 => e \notin pool' /\ e \notin DOMAIN strong'
          /\ ( /\ Released(t) /\ pc[u] = "intern" /\ pc'[u] # "intern"
               /\ a[u] = old[t].buf /\ Lookup(old[t].buf) = {} ) =>
                 pc'[u] = "to_arc" /\ pool' = pool
          /\ ( /\ Released(t) /\ pc[u] = "insert_arc" /\ pc'[u] = "done"
               /\ a[u] = old[t].buf ) =>
                 /\ arc[u] \notin pool
                 /\ pool' = pool \cup {arc[u]}
                 /\ data'[arc[u]] = old[t].buf
                 /\ strong'[arc[u]] = 2
      ]_vars

\* after to_mut on a Shared value the pool has been collected and has lost the
\* entry of the old content, and another thread that interns this content has
\* missed the lookup and is about to insert its new allocation
C34_Witness ==
    \E t \in MowThreads : \E u \in Threads \ {t} :
        /\ Released(t) /\ op[t] = "to_mut" /\ val[t].tag = "M"
        /\ pc[u] = "insert_arc" /\ a[u] = old[t].buf
        /\ Lookup(old[t].buf) = {}

\* after push_str on a Shared value a collect_garbage has returned and the pool has
\* no entry of the old content
C34_WitnessSwept ==
    \E t \in MowThreads : \E u \in Threads \ {t} :
        /\ Released(t) /\ op[t] = "push_str"
        /\ pc[u] = "done" /\ op[u] = "collect_garbage"
        /\ Lookup(old[t].buf) = {}

\* the content of a plain String with content s after operation f with argument x
\* has been applied to it: only push_str, clear and truncate change a String
StringAfter(f, s, x) ==
    CASE f = "push_str" -> s \o x
      [] f = "clear" -> <<>>
      [] f = "truncate" -> String_truncate(s, x[1])
      [] OTHER -> s

\* the operations of the refinement: the mutating ones, to_mut, intern and the read
\* accessors
ContentOps == {"push_str", "clear", "truncate", "to_mut", "MowStr_intern", "read"}

\* C35: the content of a MowStr follows that of a plain String.  When one of
\* push_str, clear, truncate, to_mut, intern or a read accessor returns, the value
\* has a content, and it is the content the value had when the operation was
\* called with the same String operation applied to it (none for to_mut, intern
\* and the accessors); and every other step (a step of collect_garbage, of a
\* clone of the value, of a call on another value, a return) leaves the content as
\* it was.
C35_ContentRefinement ==
    [][ \A t \in MowThreads :
          /\ (pc[t] # "done" /\ pc'[t] = "done" /\ op'[t] \in ContentOps) =>
                /\ Usable(val'[t])
                /\ as_ref(val[t])' = StringAfter(op'[t], old'[t].buf, a'[t])
          /\ ( /\ Usable(val[t]) /\ val'[t].tag # "none"
               /\ (pc[t] # "idle" \/ op'[t] \notin ContentOps) ) =>
                /\ Usable(val'[t])
                /\ as_ref(val[t])' = as_ref(val[t])
      ]_vars

\* the threads whose drop of a handle of cell c saw the previous count 1 and which
\* have not run drop_slow yet
Freeing(c) == {t \in Threads : prc_pc[t] = c}

\* C36: in every interleaving of clones, moves and drops, at most one drop of a
\* cell's handles sees the previous count 1; the thread that saw it frees a cell
\* that is still allocated and has no handle left, so no cell is freed twice; and
\* an allocated cell whose handles have all been dropped has exactly one thread on
\* its way to drop_slow, so it is not leaked.
C36_ExactlyOnce ==
    \A c \in Cells :
        /\ Cardinality(Freeing(c)) <= 1
        /\ Freeing(c) # {} =>
              /\ prc_box[c] = "leaked"
              /\ PrcHandles(c, Threads) = 0
        /\ (prc_box[c] = "leaked" /\ PrcHandles(c, Threads) = 0) =>
              Cardinality(Freeing(c)) = 1

\* two threads have each dropped the last handle of a cell at the same time: each
\* is about to free its own cell, and both cells are still allocated
C36_Witness ==
    \E t, u \in Threads : \E c, d \in Cells :
        /\ t # u /\ c # d
        /\ Freeing(c) = {t} /\ Freeing(d) = {u}
        /\ prc_box[c] = "leaked" /\ prc_box[d] = "leaked"

\* under fair scheduling a cell whose handles have all been dropped is freed
C36_EventuallyFreed ==
    \A c \in Cells :
        (prc_box[c] = "leaked" /\ PrcHandles(c, Threads) = 0) ~> (prc_box[c] = "freed")

\* the threads that have accessed the data of cell c
Accessed(c) == {u \in Threads : <<u, c>> \in prc_view[u]}

\* C37: with the relaxed fetch_add of clone, the release fetch_sub of drop and the
\* acquire fence of the final drop, every access any thread has made to the data
\* of a cell happens before the step that frees the cell: the thread that is about
\* to run drop_slow sees the accesses of every thread that dropped a handle
\* earlier.
C37_LastDropperSees ==
    \A t \in Threads : \A c \in Cells :
        prc_pc[t] = c => \A u \in Accessed(c) : <<u, c>> \in prc_view[t]

\* a thread is about to free a cell whose data another thread accessed, and it has
\* read that access from the strong count the other thread's drop released it into
C37_Witness ==
    \E t, u \in Threads : \E c \in Cells :
        /\ t # u
        /\ prc_pc[t] = c
        /\ u \in Accessed(c)
        /\ <<u, c>> \in prc_acq[t] /\ <<u, c>> \in prc_msg[c]

====
